---------------------------- MODULE Spec2Model ----------------------------
(***************************************************************************)
(* Odoo backup migration tool: the migration orchestrator (runMigration),  *)
(* the per-script transaction (executeMigrationScript) and the pipeline    *)
(* coordinator (migrate).                                                  *)
(*                                                                         *)
(* Strings whose characters matter (version strings) are sequences of      *)
(* one-character strings, so that startsWith and split are computed.       *)
(* Log output is not modelled; everything that reaches a result is.        *)
(***************************************************************************)
EXTENDS Integers, Sequences, FiniteSets, TLC

(***************************************************************************)
(* Version strings                                                         *)
(***************************************************************************)
V150 == <<"1", "5", ".", "0">>
V160 == <<"1", "6", ".", "0">>
V170 == <<"1", "7", ".", "0">>
V172 == <<"1", "7", ".", "2">>
V180 == <<"1", "8", ".", "0">>
V16x == <<"1", "6", "0">>
Unknown == <<"u", "n", "k", "n", "o", "w", "n">>

\* String.prototype.startsWith
StartsWith(s, p) ==
    /\ Len(s) >= Len(p)
    /\ SubSeq(s, 1, Len(p)) = p

\* s.split('.')[0]: the characters before the first '.', or all of s
SplitHead(s) ==
    LET dots == {i \in 1..Len(s) : s[i] = "."}
    IN  IF dots = {} THEN s
        ELSE SubSeq(s, 1, (CHOOSE i \in dots : \A j \in dots : i <= j) - 1)

\* config.sourceVersion.split('.')[0] + '.'
ExpectedPrefix(sourceVersion) == SplitHead(sourceVersion) \o <<".">>

(***************************************************************************)
(* Script catalogs.  A script is its id, its order key, the schema object  *)
(* its preCheck tests ("" = no preCheck), whether it has a postCheck (the  *)
(* only postCheck of either catalog is SELECT true as valid), the tables   *)
(* its statement touches unconditionally (the statement raises when one is *)
(* missing), the tables it creates, the version marker it writes ("" =     *)
(* none) and the marker prefix it insists on ("" = none).                  *)
(***************************************************************************)
NoStr == <<>>

Script(id, order, pre, post, req, creates, mark, needsMark) ==
    [id |-> id, order |-> order, pre |-> pre, post |-> post, req |-> req,
     creates |-> creates, mark |-> mark, needsMark |-> needsMark]

CriticalTables == {"ir_module_module", "res_users", "res_partner", "res_company"}

MIGRATION_SCRIPTS == <<
    Script("pre-001-backup-check", 1, "", TRUE, CriticalTables, {}, NoStr, NoStr),
    Script("mod-001-module-dependencies", 10, "ir_module_module_dependency.name", FALSE,
           {"ir_module_module_dependency", "ir_module_module"}, {}, NoStr, NoStr),
    Script("mod-002-module-state", 11, "", FALSE, {"ir_module_module"}, {}, NoStr, NoStr),
    Script("partner-001-trust-field", 20, "", FALSE, {"res_partner"}, {}, NoStr, NoStr),
    Script("partner-002-activity-tracking", 21, "", FALSE, {"res_partner"}, {}, NoStr, NoStr),
    Script("user-001-totp-columns", 30, "", FALSE, {"res_users"}, {}, NoStr, NoStr),
    Script("user-002-api-keys", 31, "res_users_apikeys", FALSE, {"res_users_apikeys"}, {}, NoStr, NoStr),
    Script("account-001-move-name", 40, "account_move", FALSE, {"account_move"}, {}, NoStr, NoStr),
    Script("account-002-payment-state", 41, "account_move.payment_state", FALSE,
           {"account_move"}, {}, NoStr, NoStr),
    Script("mail-001-message-structure", 50, "mail_message", FALSE, {"mail_message"}, {}, NoStr, NoStr),
    Script("web-001-asset-bundle", 60, "ir_asset", FALSE, {"ir_asset"}, {}, NoStr, NoStr),
    Script("version-001-mark-17", 100, "", FALSE, {"ir_config_parameter"}, {}, V170, NoStr),
    Script("post-001-recompute-stored", 110, "", FALSE, {"ir_model_fields"}, {}, NoStr, NoStr),
    Script("post-002-clear-caches", 120, "", FALSE, {"ir_ui_view"}, {}, NoStr, NoStr) >>

MIGRATION_SCRIPTS_17_18 == <<
    Script("pre-001-backup-check-18", 1, "", TRUE, CriticalTables, {}, NoStr, NoStr),
    Script("pre-002-version-check", 2, "", FALSE, {"ir_config_parameter"}, {}, NoStr, <<"1", "7", ".">>),
    Script("mod-001-module-category", 10, "", FALSE, {"ir_module_category"}, {}, NoStr, NoStr),
    Script("mod-002-module-license", 11, "", FALSE, {"ir_module_module"}, {}, NoStr, NoStr),
    Script("partner-001-avatar-field", 20, "", FALSE, {"res_partner"}, {}, NoStr, NoStr),
    Script("partner-002-additional-info", 21, "", FALSE, {"res_partner"}, {}, NoStr, NoStr),
    Script("user-001-password-policy", 30, "", FALSE, {"res_users"}, {}, NoStr, NoStr),
    Script("user-002-session-management", 31, "res_users_log", FALSE, {"res_users_log"}, {}, NoStr, NoStr),
    Script("account-001-tax-changes", 40, "account_tax", FALSE, {"account_tax"}, {}, NoStr, NoStr),
    Script("account-002-journal-changes", 41, "account_journal", FALSE, {"account_journal"}, {}, NoStr, NoStr),
    Script("mail-001-reaction-support", 50, "mail_message", FALSE, {"mail_message", "res_partner"},
           {"mail_message_reaction"}, NoStr, NoStr),
    Script("mail-002-scheduled-messages", 51, "mail_message", FALSE, {"mail_message"}, {}, NoStr, NoStr),
    Script("web-001-theme-variables", 60, "ir_ui_view", FALSE, {"ir_ui_view"}, {}, NoStr, NoStr),
    Script("new-001-knowledge-base", 70, "", FALSE, {"res_partner"}, {}, NoStr, NoStr),
    Script("version-001-mark-18", 100, "", FALSE, {"ir_config_parameter"}, {}, V180, NoStr),
    Script("post-001-recompute-stored", 110, "", FALSE, {"ir_model_fields"}, {}, NoStr, NoStr),
    Script("post-002-clear-caches", 120, "", FALSE, {"ir_ui_view"}, {}, NoStr, NoStr) >>


(***************************************************************************)
(* getMigrationScripts: [...catalog].sort((a, b) => a.order - b.order).    *)
(* Array.prototype.sort is stable: an element goes after every element     *)
(* already placed whose key is not greater.                                *)
(***************************************************************************)
\* an unstable variant: an element goes before the placed elements of the same key
InsertByOrderUnstable(sorted, x) ==
    LET before == {i \in 1..Len(sorted) : sorted[i].order < x.order}
        k == Cardinality(before)
    IN  SubSeq(sorted, 1, k) \o <<x>> \o SubSeq(sorted, k + 1, Len(sorted))

InsertByOrder(sorted, x) ==
    LET before == {i \in 1..Len(sorted) : sorted[i].order <= x.order}
        k == Cardinality(before)
    IN  SubSeq(sorted, 1, k) \o <<x>> \o SubSeq(sorted, k + 1, Len(sorted))

RECURSIVE SortByOrder(_)
SortByOrder(cat) ==
    IF cat = <<>> THEN <<>>
    ELSE InsertByOrder(SortByOrder(SubSeq(cat, 1, Len(cat) - 1)), cat[Len(cat)])

getMigrationScripts == SortByOrder(MIGRATION_SCRIPTS)
getMigrationScripts17to18 == SortByOrder(MIGRATION_SCRIPTS_17_18)

getRequiredTables ==
    <<"ir_module_module", "res_users", "res_partner", "res_company", "ir_config_parameter">>

getRequiredTables17to18 ==
    <<"ir_module_module", "res_users", "res_partner", "res_company", "ir_config_parameter">>

SOURCE_VERSION == V160
TARGET_VERSION == V170
SOURCE_VERSION_17 == V170
TARGET_VERSION_18 == V180

P1617 == "16-to-17"
P1718 == "17-to-18"
NoPath == "none"
MigrationPaths == {P1617, P1718}

MIGRATION_PATHS ==
    [p \in MigrationPaths |->
        IF p = P1617
        THEN [sourceVersion |-> SOURCE_VERSION, targetVersion |-> TARGET_VERSION,
              scripts |-> getMigrationScripts, requiredTables |-> getRequiredTables]
        ELSE [sourceVersion |-> SOURCE_VERSION_17, targetVersion |-> TARGET_VERSION_18,
              scripts |-> getMigrationScripts17to18,
              requiredTables |-> getRequiredTables17to18]]

getMigrationPathInfo(p) ==
    [source |-> MIGRATION_PATHS[p].sourceVersion, target |-> MIGRATION_PATHS[p].targetVersion]

(***************************************************************************)
(* Database contents the model distinguishes: the schema objects present   *)
(* (tables, and "table.column" for the columns a preCheck tests), the rows *)
(* of ir_config_parameter with key database.version, and the ids of the    *)
(* scripts whose statement has taken effect.                               *)
(***************************************************************************)
Range(f) == {f[i] : i \in DOMAIN f}

MinimalTables == Range(getRequiredTables) \cup Range(getRequiredTables17to18)
SupportTables == {"ir_model_fields", "ir_ui_view", "ir_attachment", "ir_module_category"}
OptionalObjects ==
    {"ir_module_module_dependency", "ir_module_module_dependency.name", "res_users_apikeys",
     "account_move", "account_move.payment_state", "mail_message", "ir_asset",
     "res_users_log", "account_tax", "account_journal"}
StandardTables == MinimalTables \cup SupportTables

TableSets ==
    { MinimalTables,
      StandardTables,
      StandardTables \cup OptionalObjects,
      StandardTables \cup {"account_move", "mail_message"},
      StandardTables \ {"res_partner"},
      StandardTables \ {"res_partner", "res_company"},
      StandardTables \ {"ir_config_parameter"} }

MarkerRows == { <<>>, <<V160>>, <<V170>>, <<V172>>, <<V180>>, <<V150>>, <<V16x>> }

Databases ==
    { d \in [tables : TableSets, markerRows : MarkerRows, effects : {{}}] :
        d.markerRows = <<>> \/ "ir_config_parameter" \in d.tables }

EmptyDb == [tables |-> {}, markerRows |-> <<>>, effects |-> {}]

\* bounds of the environment
MaxFaults == 2
MaxPending == 1
MaxOrphans == 1


(***************************************************************************)
(* State                                                                   *)
(***************************************************************************)
VARIABLES
    db,          \* committed contents of the database the pool is connected to
    txdb,        \* contents as seen inside the open transaction
    txOpen,      \* a BEGIN has been issued and neither COMMIT nor ROLLBACK has succeeded
    clientHeld,  \* executeMigrationScript holds a pooled client
    faults,      \* environment failures (queries, tools, file operations) injected so far
    rpc,         \* position in runMigration
    spc,         \* position in executeMigrationScript
    pathArg,     \* runMigration's migrationPath argument
    path,        \* the path runMigration works on
    result,      \* runMigration's MigrationResult
    idx,         \* index of the current script in config.getScripts()
    scriptRet,   \* value executeMigrationScript resolved with
    executed,    \* ids of the scripts whose main statement was sent, in order
    txlog        \* transaction commands that succeeded, in order

VARIABLES
    mpc,         \* position in migrate ("none": runMigration was called directly)
    config,      \* MigrationConfig: migrationPath, keepTemp
    archive,     \* the input archive: where dump.sql and manifest.json sit, the manifest's fields
    dump,        \* database contents as loaded (from the archive's dump.sql), before any script
    tempDir,     \* migrate's tempDir is non-null
    scratch,     \* the scratch directory exists on disk
    dbContext,   \* migrate's dbContext is non-null
    tempDb,      \* the temporary database on the server: "none", "exists", "dropped"
    pool,        \* migrate's pool: "null", "open", or "ended" (non-null, end() has succeeded)
    mpath,       \* migrate's migrationPath
    staged,      \* completion of the try/catch part: kind "none", "return" or "throw", and the value
    outcome,     \* "running", "resolved" or "rejected"
    events,      \* progress events emitted, in order
    failPhase,   \* pipeline phase in which the failure of this run arose ("" = none)
    cleanupRuns, \* number of times the finally block was entered
    teardown,    \* teardown operations attempted, in order
    output       \* the file at outputPath, the manifest.json in it, and the report next to it

orchVars == <<db, txdb, txOpen, clientHeld, faults, rpc, spc, pathArg, path, result, idx,
              scriptRet, executed, txlog>>

pipeVars == <<mpc, config, archive, dump, tempDir, scratch, dbContext, tempDb, pool, mpath,
              staged, outcome, events, failPhase, cleanupRuns, teardown, output>>

\* an EmbeddedPostgres instance and the machine it runs on
VARIABLES
    initialized, \* this.initialized
    running,     \* this.running
    port,        \* this.port (0: not selected yet)
    autoDataDir, \* this.autoDataDir
    dataDir,     \* what is on disk at this.dataDir: "absent", "foreign" or "cluster"
    serverUp,    \* a postgres server process runs on the data directory
    pgCalls,     \* number of calls made on the instance
    pgLast,      \* the last call: its name, the tools and file operations it ran, its outcome
    pgStopped    \* a stop() issued while running has completed

pgVars == <<initialized, running, port, autoDataDir, dataDir, serverUp, pgCalls, pgLast, pgStopped>>

NoCall == [op |-> "none", log |-> <<>>, threw |-> FALSE]

\* no EmbeddedPostgres instance is in use
PgIdle ==
    /\ initialized = FALSE
    /\ running = FALSE
    /\ port = 0
    /\ autoDataDir = TRUE
    /\ dataDir = "absent"
    /\ serverUp = FALSE
    /\ pgCalls = 0
    /\ pgLast = NoCall
    /\ pgStopped = FALSE

\* one call of loadDumpFile taken on its own
VARIABLES
    loadIn,      \* what the call meets: the dump's content, psql's behaviour, failing queries
    loadOut      \* how the call ended, and the temporary database it left

loadVars == <<loadIn, loadOut>>

NoLoad == [dump |-> EmptyDb, spawnFail |-> FALSE,
           code |-> 0, queryFail |-> FALSE, endFail |-> FALSE]
NotLoaded == [called |-> FALSE, ok |-> FALSE, kind |-> "", db |-> EmptyDb]

\* loadDumpFile is not being looked at on its own
LoadIdle ==
    /\ loadIn = NoLoad
    /\ loadOut = NotLoaded

\* one call of a function of the program taken on its own
VARIABLES
    callIn,      \* the arguments of the call and what it meets in its environment
    callOut      \* what the call returned or threw, and what it left behind

callVars == <<callIn, callOut>>

Unapplied == [fn |-> "none"]

\* no function is being looked at on its own
CallIdle ==
    /\ callIn = Unapplied
    /\ callOut = Unapplied

vars == <<orchVars, pipeVars, pgVars, loadVars, callVars>>

\* an environment failure may be injected while the budget lasts
Faulty == IF faults < MaxFaults THEN BOOLEAN ELSE {FALSE}
Count(b) == IF b THEN 1 ELSE 0

Err(phase, kind, subject) == [phase |-> phase, kind |-> kind, subject |-> subject]
Warn(kind, subject) == [kind |-> kind, subject |-> subject]

Staged(kind, value) == [kind |-> kind, value |-> value]
\* OdooManifest; "undefined" (NoStr for version) stands for a key the JSON text lacks
OdooManifest(db_name, version, timestamp) ==
    [db_name |-> db_name, version |-> version, timestamp |-> timestamp]
NoManifest == OdooManifest("undefined", NoStr, "undefined")

NoArchive == [dump |-> "absent", manifest |-> "absent", version |-> NoStr,
              db_name |-> "undefined", timestamp |-> "undefined"]
NoOutput == [archive |-> "untouched", manifest |-> NoManifest, report |-> "none"]

NoResult ==
    [success |-> FALSE, sourceVersion |-> NoStr, targetVersion |-> NoStr,
     migrationsApplied |-> <<>>, errors |-> <<>>, warnings |-> <<>>]

\* JavaScript values executeMigrationScript can resolve with, and their truthiness
Undefined == [type |-> "undefined", applied |-> FALSE]
ScriptExecutionResult(applied) == [type |-> "object", applied |-> applied]
Truthy(v) ==
    CASE v.type = "object" -> TRUE
      [] v.type = "boolean" -> v.applied
      [] OTHER -> FALSE

\* SELECT value FROM ir_config_parameter WHERE key = 'database.version'
VersionQueryRaises(dbv, envFail) == envFail \/ "ir_config_parameter" \notin dbv.tables

(***************************************************************************)
(* detectMigrationPath                                                     *)
(***************************************************************************)
\* a variant that tests the major number without the dot
detectMigrationPathNoDot(dbv, envFail) ==
    IF VersionQueryRaises(dbv, envFail) THEN NoPath
    ELSE IF Len(dbv.markerRows) > 0
         THEN IF StartsWith(dbv.markerRows[1], <<"1", "6">>) THEN P1617
              ELSE IF StartsWith(dbv.markerRows[1], <<"1", "7">>) THEN P1718
              ELSE NoPath
         ELSE NoPath

detectMigrationPath(dbv, envFail) ==
    IF VersionQueryRaises(dbv, envFail) THEN NoPath
    ELSE IF Len(dbv.markerRows) > 0
         THEN IF StartsWith(dbv.markerRows[1], <<"1", "6", ".">>) THEN P1617
              ELSE IF StartsWith(dbv.markerRows[1], <<"1", "7", ".">>) THEN P1718
              ELSE NoPath
         ELSE NoPath

(***************************************************************************)
(* runMigration, up to the creation of result                              *)
(***************************************************************************)
RunMigrationStart ==
    /\ rpc = "called"
    /\ \E envFail \in Faulty :
         LET detected == IF pathArg = NoPath THEN detectMigrationPath(db, envFail) ELSE pathArg
             used == pathArg = NoPath /\ envFail
         IN  /\ (pathArg # NoPath) => ~envFail
             /\ faults' = faults + Count(used)
             /\ IF detected = NoPath
                THEN /\ result' = [success |-> FALSE, sourceVersion |-> Unknown,
                                   targetVersion |-> Unknown, migrationsApplied |-> <<>>,
                                   errors |-> <<Err("migration", "no_path", "")>>,
                                   warnings |-> <<>>]
                     /\ rpc' = "done"
                     /\ path' = NoPath
                ELSE /\ result' = [success |-> FALSE,
                                   sourceVersion |-> MIGRATION_PATHS[detected].sourceVersion,
                                   targetVersion |-> MIGRATION_PATHS[detected].targetVersion,
                                   migrationsApplied |-> <<>>, errors |-> <<>>, warnings |-> <<>>]
                     /\ rpc' = "prevalidate"
                     /\ path' = detected
    /\ UNCHANGED <<db, txdb, txOpen, clientHeld, spc, pathArg, idx, scriptRet, executed, txlog>>
    /\ UNCHANGED pipeVars
    /\ UNCHANGED <<pgVars, loadVars, callVars>>


(***************************************************************************)
(* validatePreMigration                                                    *)
(***************************************************************************)
tableExists(dbv, table) == table \in dbv.tables

\* a variant that stops at the first missing table
MissingTableErrorsFirstOnly(dbv, tables, n) ==
    LET missing == {i \in 1..n : ~tableExists(dbv, tables[i])}
    IN  IF missing = {} THEN <<>>
        ELSE <<Err("migration", "required_table_missing",
                   tables[CHOOSE i \in missing : \A j \in missing : i <= j])>>

\* the loop over requiredTables, for the first n tables: one error per missing table
RECURSIVE MissingTableErrors(_, _, _)
MissingTableErrors(dbv, tables, n) ==
    IF n = 0 THEN <<>>
    ELSE MissingTableErrors(dbv, tables, n - 1) \o
         (IF tableExists(dbv, tables[n]) THEN <<>>
          ELSE <<Err("migration", "required_table_missing", tables[n])>>)

\* the "check current version" block: a mismatch is thrown inside the try whose
\* catch only logs, exactly like a failure of the query itself
VersionCheckWarnings(dbv, pathConfig, envFail) ==
    LET rows == dbv.markerRows
        queryRaised == VersionQueryRaises(dbv, envFail)
        mismatchThrown == /\ ~queryRaised
                          /\ Len(rows) > 0
                          /\ ~StartsWith(rows[1], ExpectedPrefix(pathConfig.sourceVersion))
    IN  IF queryRaised \/ mismatchThrown THEN <<>>
        ELSE IF Len(rows) > 0 THEN <<>>
        ELSE <<Warn("no_version_marker", "")>>

\* the "pending module upgrades" block
PendingWarnings(dbv, envFail, pendingCount) ==
    IF envFail \/ "ir_module_module" \notin dbv.tables THEN <<>>
    ELSE IF pendingCount > 0 THEN <<Warn("pending_modules", "")>>
    ELSE <<>>

validatePreMigration(dbv, pathConfig, verFail, modFail, pendingCount) ==
    [errors |-> MissingTableErrors(dbv, pathConfig.requiredTables, Len(pathConfig.requiredTables)),
     warnings |-> VersionCheckWarnings(dbv, pathConfig, verFail) \o
                  PendingWarnings(dbv, modFail, pendingCount)]

\* runMigration lines 138-149 and, for an exception out of tableExists, 189-198
ValidatePre ==
    /\ rpc = "prevalidate"
    /\ LET pathConfig == MIGRATION_PATHS[path]
       IN \E tFail \in 0..Len(pathConfig.requiredTables), verFail \in Faulty, modFail \in Faulty,
             pendingCount \in 0..MaxPending :
            /\ Count(tFail > 0) + Count(verFail) + Count(modFail) <= MaxFaults - faults
            /\ faults' = faults + Count(tFail > 0) + Count(verFail) + Count(modFail)
            /\ IF tFail > 0
               THEN \* the tFail-th tableExists query rejects
                    /\ ~verFail /\ ~modFail /\ pendingCount = 0
                    /\ result' = [result EXCEPT !.errors =
                                     MissingTableErrors(db, pathConfig.requiredTables, tFail - 1)
                                     \o <<Err("migration", "unexpected", "")>>]
                    /\ rpc' = "done"
                    /\ idx' = idx
               ELSE LET v == validatePreMigration(db, pathConfig, verFail, modFail, pendingCount)
                    IN  /\ (pendingCount > 0) => (~modFail /\ "ir_module_module" \in db.tables)
                        /\ result' = [result EXCEPT !.errors = @ \o v.errors,
                                                    !.warnings = @ \o v.warnings]
                        /\ IF Len(result'.errors) > 0
                           THEN rpc' = "done" /\ idx' = idx
                           ELSE rpc' = "scripts" /\ idx' = 1
    /\ UNCHANGED <<db, txdb, txOpen, clientHeld, spc, pathArg, path, scriptRet, executed, txlog>>
    /\ UNCHANGED pipeVars
    /\ UNCHANGED <<pgVars, loadVars, callVars>>


(***************************************************************************)
(* executeMigrationScript (the definition returning ScriptExecutionResult) *)
(***************************************************************************)
Scripts == MIGRATION_PATHS[path].scripts
cur == Scripts[idx]

\* the check-only DO blocks change nothing
Mutates(s) == s.id \notin {"pre-001-backup-check", "pre-001-backup-check-18", "pre-002-version-check"}

\* the statement raises: a table it touches is missing, or its own RAISE EXCEPTION fires
SqlRaises(dbv, s) ==
    \/ ~(s.req \subseteq dbv.tables)
    \/ /\ s.needsMark # NoStr
       /\ \/ Len(dbv.markerRows) = 0
          \/ ~StartsWith(dbv.markerRows[1], s.needsMark)

ApplySql(dbv, s) ==
    [tables |-> dbv.tables \cup s.creates,
     markerRows |-> IF s.mark # NoStr THEN <<s.mark>> ELSE dbv.markerRows,
     effects |-> IF Mutates(s) THEN dbv.effects \cup {s.id} ELSE dbv.effects]

\* rows[0]?.result ?? true of SELECT EXISTS (...) as result
PreCheckResult(dbv, s) == s.pre \in dbv.tables

\* rows[0]?.valid ?? true of SELECT true as valid
PostCheckValid(dbv, s) == TRUE

\* const client = await pool.connect()
ScriptConnect ==
    /\ rpc = "scripts" /\ spc = "idle"
    /\ \E envFail \in Faulty :
         /\ faults' = faults + Count(envFail)
         /\ IF envFail
            THEN spc' = "threw" /\ clientHeld' = clientHeld
            ELSE spc' = "begin" /\ clientHeld' = TRUE
    /\ UNCHANGED <<db, txdb, txOpen, rpc, pathArg, path, result, idx, scriptRet, executed, txlog>>
    /\ UNCHANGED pipeVars
    /\ UNCHANGED <<pgVars, loadVars, callVars>>

\* await client.query('BEGIN')
ScriptBegin ==
    /\ spc = "begin"
    /\ \E envFail \in Faulty :
         /\ faults' = faults + Count(envFail)
         /\ IF envFail
            THEN spc' = "catch" /\ UNCHANGED <<txOpen, txdb, txlog>>
            ELSE /\ txOpen' = TRUE
                 /\ txdb' = db
                 /\ txlog' = Append(txlog, <<"BEGIN", cur.id>>)
                 /\ spc' = IF cur.pre # "" THEN "pre" ELSE "sql"
    /\ UNCHANGED <<db, clientHeld, rpc, pathArg, path, result, idx, scriptRet, executed>>
    /\ UNCHANGED pipeVars
    /\ UNCHANGED <<pgVars, loadVars, callVars>>

\* if (script.preCheck) { preResult = await client.query(script.preCheck); ... }
ScriptPreCheck ==
    /\ spc = "pre"
    /\ \E envFail \in Faulty :
         /\ faults' = faults + Count(envFail)
         /\ spc' = IF envFail THEN "catch"
                   ELSE IF PreCheckResult(txdb, cur) THEN "sql" ELSE "skip"
    /\ UNCHANGED <<db, txdb, txOpen, clientHeld, rpc, pathArg, path, result, idx, scriptRet,
                   executed, txlog>>
    /\ UNCHANGED pipeVars
    /\ UNCHANGED <<pgVars, loadVars, callVars>>

\* await client.query('ROLLBACK'); return { applied: false }; finally client.release()
ScriptSkip ==
    /\ spc = "skip"
    /\ \E envFail \in Faulty :
         /\ faults' = faults + Count(envFail)
         /\ IF envFail
            THEN spc' = "catch" /\ UNCHANGED <<txOpen, txdb, txlog, scriptRet, clientHeld>>
            ELSE /\ txOpen' = FALSE
                 /\ txdb' = db
                 /\ txlog' = Append(txlog, <<"ROLLBACK", cur.id>>)
                 /\ scriptRet' = ScriptExecutionResult(FALSE)
                 /\ clientHeld' = FALSE
                 /\ spc' = "returned"
    /\ UNCHANGED <<db, rpc, pathArg, path, result, idx, executed>>
    /\ UNCHANGED pipeVars
    /\ UNCHANGED <<pgVars, loadVars, callVars>>

\* await client.query(script.sql)
ScriptSql ==
    /\ spc = "sql"
    /\ \E envFail \in Faulty :
         /\ faults' = faults + Count(envFail)
         /\ executed' = Append(executed, cur.id)
         /\ IF envFail \/ SqlRaises(txdb, cur)
            THEN spc' = "catch" /\ txdb' = txdb
            ELSE /\ txdb' = ApplySql(txdb, cur)
                 /\ spc' = IF cur.post THEN "post" ELSE "commit"
    /\ UNCHANGED <<db, txOpen, clientHeld, rpc, pathArg, path, result, idx, scriptRet, txlog>>
    /\ UNCHANGED pipeVars
    /\ UNCHANGED <<pgVars, loadVars, callVars>>

\* if (script.postCheck) { ...; if (!valid) throw }
ScriptPostCheck ==
    /\ spc = "post"
    /\ \E envFail \in Faulty :
         /\ faults' = faults + Count(envFail)
         /\ spc' = IF envFail \/ ~PostCheckValid(txdb, cur) THEN "catch" ELSE "commit"
    /\ UNCHANGED <<db, txdb, txOpen, clientHeld, rpc, pathArg, path, result, idx, scriptRet,
                   executed, txlog>>
    /\ UNCHANGED pipeVars
    /\ UNCHANGED <<pgVars, loadVars, callVars>>

\* await client.query('COMMIT'); return { applied: true }; finally client.release()
ScriptCommit ==
    /\ spc = "commit"
    /\ \E envFail \in Faulty :
         /\ faults' = faults + Count(envFail)
         /\ IF envFail
            THEN spc' = "catch" /\ UNCHANGED <<db, txOpen, txlog, scriptRet, clientHeld>>
            ELSE /\ db' = txdb
                 /\ txOpen' = FALSE
                 /\ txlog' = Append(txlog, <<"COMMIT", cur.id>>)
                 /\ scriptRet' = ScriptExecutionResult(TRUE)
                 /\ clientHeld' = FALSE
                 /\ spc' = "returned"
    /\ UNCHANGED <<txdb, rpc, pathArg, path, result, idx, executed>>
    /\ UNCHANGED pipeVars
    /\ UNCHANGED <<pgVars, loadVars, callVars>>

\* catch (err) { await client.query('ROLLBACK'); throw err } finally { client.release() }
ScriptCatch ==
    /\ spc = "catch"
    /\ \E envFail \in Faulty :
         /\ faults' = faults + Count(envFail)
         /\ IF envFail
            THEN UNCHANGED <<txOpen, txdb, txlog>>
            ELSE /\ txOpen' = FALSE
                 /\ txdb' = db
                 /\ txlog' = Append(txlog, <<"ROLLBACK", cur.id>>)
         /\ clientHeld' = FALSE
         /\ spc' = "threw"
    /\ UNCHANGED <<db, rpc, pathArg, path, result, idx, scriptRet, executed>>
    /\ UNCHANGED pipeVars
    /\ UNCHANGED <<pgVars, loadVars, callVars>>

(***************************************************************************)
(* runMigration: the script loop                                           *)
(***************************************************************************)
\* const applied = await executeMigrationScript(...); if (applied) ... else ...
RunScriptReturned ==
    /\ rpc = "scripts" /\ spc = "returned"
    /\ LET applied == scriptRet
       IN  result' = IF Truthy(applied)
                     THEN [result EXCEPT !.migrationsApplied = Append(@, cur.id)]
                     ELSE [result EXCEPT !.warnings = Append(@, Warn("skipped", cur.id))]
    /\ idx' = idx + 1
    /\ spc' = "idle"
    /\ rpc' = IF idx + 1 > Len(Scripts) THEN "post" ELSE "scripts"
    /\ scriptRet' = Undefined
    /\ UNCHANGED <<db, txdb, txOpen, clientHeld, faults, pathArg, path, executed, txlog>>
    /\ UNCHANGED pipeVars
    /\ UNCHANGED <<pgVars, loadVars, callVars>>

\* catch (err) { result.errors.push(...); return result }
RunScriptThrew ==
    /\ rpc = "scripts" /\ spc = "threw"
    /\ result' = [result EXCEPT !.errors = Append(@, Err("migration", "script_failed", cur.id))]
    /\ spc' = "idle"
    /\ rpc' = "done"
    /\ UNCHANGED <<db, txdb, txOpen, clientHeld, faults, pathArg, path, idx, scriptRet,
                   executed, txlog>>
    /\ UNCHANGED pipeVars
    /\ UNCHANGED <<pgVars, loadVars, callVars>>

(***************************************************************************)
(* validatePostMigration and the end of runMigration                       *)
(***************************************************************************)
VersionVerifyWarnings(dbv, pathConfig, envFail) ==
    IF VersionQueryRaises(dbv, envFail) THEN <<Warn("could_not_verify_version", "")>>
    ELSE IF Len(dbv.markerRows) > 0 /\ dbv.markerRows[1] # pathConfig.targetVersion
         THEN <<Warn("version_marker_differs", "")>>
         ELSE <<>>

OrphanWarnings(dbv, envFail, orphans) ==
    IF envFail \/ ~({"res_users", "res_partner"} \subseteq dbv.tables) THEN <<>>
    ELSE IF orphans > 0 THEN <<Warn("orphaned_partner_references", "")>>
    ELSE <<>>

\* a variant that treats the findings as fatal
validatePostMigrationFatal(dbv, pathConfig, verFail, fkFail, orphans) ==
    [errors |-> VersionVerifyWarnings(dbv, pathConfig, verFail) \o
                OrphanWarnings(dbv, fkFail, orphans),
     warnings |-> <<>>]

validatePostMigration(dbv, pathConfig, verFail, fkFail, orphans) ==
    [errors |-> <<>>,
     warnings |-> VersionVerifyWarnings(dbv, pathConfig, verFail) \o
                  OrphanWarnings(dbv, fkFail, orphans)]

ValidatePost ==
    /\ rpc = "post"
    /\ \E verFail \in Faulty, fkFail \in Faulty, orphans \in 0..MaxOrphans :
         LET v == validatePostMigration(db, MIGRATION_PATHS[path], verFail, fkFail, orphans)
         IN  /\ Count(verFail) + Count(fkFail) <= MaxFaults - faults
             /\ (orphans > 0) => (~fkFail /\ {"res_users", "res_partner"} \subseteq db.tables)
             /\ faults' = faults + Count(verFail) + Count(fkFail)
             /\ result' = [result EXCEPT !.errors = @ \o v.errors,
                                         !.warnings = @ \o v.warnings,
                                         !.success = (Len(result.errors \o v.errors) = 0)]
    /\ rpc' = "done"
    /\ UNCHANGED <<db, txdb, txOpen, clientHeld, spc, pathArg, path, idx, scriptRet, executed, txlog>>
    /\ UNCHANGED pipeVars
    /\ UNCHANGED <<pgVars, loadVars, callVars>>

RunMigrationNext ==
    \/ RunMigrationStart
    \/ ValidatePre
    \/ ScriptConnect
    \/ ScriptBegin
    \/ ScriptPreCheck
    \/ ScriptSkip
    \/ ScriptSql
    \/ ScriptPostCheck
    \/ ScriptCommit
    \/ ScriptCatch
    \/ RunScriptReturned
    \/ RunScriptThrew
    \/ ValidatePost

(***************************************************************************)
(* runMigration called on a loaded database                                *)
(***************************************************************************)
Init ==
    /\ db \in Databases
    /\ txdb = db
    /\ txOpen = FALSE
    /\ clientHeld = FALSE
    /\ faults = 0
    /\ rpc = "called"
    /\ spc = "idle"
    /\ pathArg \in MigrationPaths \cup {NoPath}
    /\ path = NoPath
    /\ result = NoResult
    /\ idx = 0
    /\ scriptRet = Undefined
    /\ executed = <<>>
    /\ txlog = <<>>
    /\ mpc = "none"
    /\ config = [migrationPath |-> NoPath, keepTemp |-> FALSE]
    /\ archive = NoArchive
    /\ dump = db
    /\ tempDir = FALSE
    /\ scratch = "none"
    /\ dbContext = FALSE
    /\ tempDb = "none"
    /\ pool = "null"
    /\ mpath = NoPath
    /\ staged = Staged("none", NoResult)
    /\ outcome = "running"
    /\ events = <<>>
    /\ failPhase = ""
    /\ cleanupRuns = 0
    /\ teardown = <<>>
    /\ output = NoOutput
    /\ PgIdle
    /\ LoadIdle
    /\ CallIdle

Next == RunMigrationNext

Spec == Init /\ [][Next]_vars


(***************************************************************************)
(* The input archive and extractBackup.  A member sits at the archive      *)
(* root, in a wrapper folder ("w" or "v"), deeper ("deep") or nowhere.     *)
(***************************************************************************)
REQUIRED_FILES == <<"dump.sql", "manifest.json">>

MemberAt(a, file) == IF file = "dump.sql" THEN a.dump ELSE a.manifest

\* validateBackupZip: name === required || name.endsWith('/' + required)
RECURSIVE MissingFiles(_, _)
MissingFiles(a, n) ==
    IF n = 0 THEN <<>>
    ELSE MissingFiles(a, n - 1) \o
         (IF MemberAt(a, REQUIRED_FILES[n]) # "absent" THEN <<>> ELSE <<REQUIRED_FILES[n]>>)

\* a variant that reports nothing
validateBackupZipTrusting(a) == <<>>

validateBackupZip(a) == MissingFiles(a, Len(REQUIRED_FILES))

\* a search that looks at the top of the scratch directory only
locateBackupContentsFlat(a) ==
    IF a.dump # "root" THEN [ok |-> FALSE, kind |-> "dump_not_found", dir |-> ""]
    ELSE IF a.manifest # "root" THEN [ok |-> FALSE, kind |-> "manifest_not_found", dir |-> ""]
    ELSE IF a.version = NoStr THEN [ok |-> FALSE, kind |-> "manifest_missing_version", dir |-> ""]
    ELSE [ok |-> TRUE, kind |-> "", dir |-> "root"]

\* locateBackupContents: flat first, then the one-level folder that holds dump.sql
locateBackupContents(a) ==
    LET dumpDir == IF a.dump \in {"root", "w", "v"} THEN a.dump ELSE "notfound"
    IN  IF dumpDir = "notfound" THEN [ok |-> FALSE, kind |-> "dump_not_found", dir |-> ""]
        ELSE IF a.manifest # dumpDir THEN [ok |-> FALSE, kind |-> "manifest_not_found", dir |-> ""]
        ELSE IF a.version = NoStr THEN [ok |-> FALSE, kind |-> "manifest_missing_version", dir |-> ""]
        ELSE [ok |-> TRUE, kind |-> "", dir |-> dumpDir]

\* an extraction that unpacks first and reports the first missing member only
extractBackupEager(a) ==
    IF Len(validateBackupZip(a)) > 0
    THEN [ok |-> FALSE, kind |-> "invalid_backup_zip", dir |-> "", unpacked |-> TRUE,
          missing |-> <<Head(validateBackupZip(a))>>]
    ELSE [ok |-> locateBackupContents(a).ok, kind |-> locateBackupContents(a).kind,
          dir |-> locateBackupContents(a).dir, unpacked |-> TRUE, missing |-> <<>>]

\* extractBackup: the one error thrown on a failed validation joins all of its messages
extractBackup(a) ==
    IF Len(validateBackupZip(a)) > 0
    THEN [ok |-> FALSE, kind |-> "invalid_backup_zip", dir |-> "", unpacked |-> FALSE,
          missing |-> validateBackupZip(a)]
    ELSE [ok |-> locateBackupContents(a).ok, kind |-> locateBackupContents(a).kind,
          dir |-> locateBackupContents(a).dir, unpacked |-> TRUE, missing |-> <<>>]

\* the manifest.json of the archive as JSON.parse reads it
InputManifest(a) == OdooManifest(a.db_name, a.version, a.timestamp)

\* new Date().toISOString() at the time of the export
Now == "now"

\* a variant that leaves the manifest's own fields in place
updateManifestKeeping(manifest, updates, now) ==
    [k \in DOMAIN manifest |-> IF k = "timestamp" THEN now ELSE manifest[k]]

\* { ...manifest, ...updates, timestamp: new Date().toISOString() }, as written by
\* JSON.stringify: a key of updates overrides the manifest's, also with undefined
updateManifest(manifest, updates, now) ==
    [k \in DOMAIN manifest |->
        IF k = "timestamp" THEN now
        ELSE IF k \in DOMAIN updates THEN updates[k]
        ELSE manifest[k]]

\* a choice of path that takes a selected path as it is
DeterminePathUnchecked(cfgPath, sourceVersion) ==
    LET auto == IF StartsWith(sourceVersion, <<"1", "6", ".">>) THEN P1617
                ELSE IF StartsWith(sourceVersion, <<"1", "7", ".">>) THEN P1718
                ELSE NoPath
        chosen == IF cfgPath # NoPath THEN cfgPath ELSE auto
    IN  IF chosen = NoPath THEN [ok |-> FALSE, kind |-> "unsupported_version", path |-> NoPath]
        ELSE [ok |-> TRUE, kind |-> "", path |-> chosen]

\* migrate lines 100-123: the path to run, or the error thrown
DeterminePath(cfgPath, sourceVersion) ==
    LET auto == IF StartsWith(sourceVersion, <<"1", "6", ".">>) THEN P1617
                ELSE IF StartsWith(sourceVersion, <<"1", "7", ".">>) THEN P1718
                ELSE NoPath
        chosen == IF cfgPath # NoPath THEN cfgPath ELSE auto
    IN  IF chosen = NoPath THEN [ok |-> FALSE, kind |-> "unsupported_version", path |-> NoPath]
        ELSE IF ~StartsWith(sourceVersion, ExpectedPrefix(getMigrationPathInfo(chosen).source))
        THEN [ok |-> FALSE, kind |-> "version_mismatch", path |-> chosen]
        ELSE [ok |-> TRUE, kind |-> "", path |-> chosen]

(***************************************************************************)
(* migrate                                                                 *)
(***************************************************************************)

\* the catch block of migrate, lines 251-274
CatchResult(kind) ==
    LET errorPathInfo == IF config.migrationPath # NoPath
                         THEN getMigrationPathInfo(config.migrationPath)
                         ELSE [source |-> V160, target |-> V170]
    IN  [success |-> FALSE, sourceVersion |-> errorPathInfo.source,
         targetVersion |-> errorPathInfo.target, migrationsApplied |-> <<>>,
         errors |-> <<Err("migration", kind, "")>>, warnings |-> <<>>]

\* an exception inside the try: the catch block builds the value to return, then finally
Thrown(kind, phase) ==
    /\ staged' = Staged("return", CatchResult(kind))
    /\ failPhase' = phase
    /\ cleanupRuns' = cleanupRuns + 1
    /\ mpc' = "fin_pool"

\* a return statement inside the try, then finally
Returned(value) ==
    /\ staged' = Staged("return", value)
    /\ cleanupRuns' = cleanupRuns + 1
    /\ mpc' = "fin_pool"

\* a reporter that rounds the progress down to a multiple of 25
EmitCoarse(evs, phase, progress) == Append(evs, <<phase, progress - (progress % 25)>>)

\* emitProgress({ phase, progress, message }): the callback sees the event at once
Emit(evs, phase, progress) == Append(evs, <<phase, progress>>)

\* emitProgress(5); tempDir = createTempDirectory(config.tempDir)
MigrateStart ==
    /\ mpc = "start"
    /\ \E envFail \in Faulty :
         /\ faults' = faults + Count(envFail)
         /\ events' = Emit(events, "extraction", 5)
         /\ IF envFail
            THEN Thrown("mkdir_failed", "extraction") /\ UNCHANGED <<tempDir, scratch>>
            ELSE /\ tempDir' = TRUE
                 /\ scratch' = "exists"
                 /\ mpc' = "extract"
                 /\ UNCHANGED <<staged, failPhase, cleanupRuns>>
    /\ UNCHANGED <<db, txdb, txOpen, clientHeld, rpc, spc, pathArg, path, result, idx, scriptRet,
                   executed, txlog>>
    /\ UNCHANGED <<config, archive, dump, dbContext, tempDb, pool, mpath, outcome, teardown, output>>
    /\ UNCHANGED <<pgVars, loadVars, callVars>>

\* extractBackup and the choice of the migration path, lines 95-131
MigrateExtract ==
    /\ mpc = "extract"
    /\ \E envFail \in Faulty :
         LET ex == extractBackup(archive)
             dp == DeterminePath(config.migrationPath, archive.version)
         IN  /\ faults' = faults + Count(envFail)
             /\ IF envFail THEN Thrown("zip_unreadable", "extraction") /\ UNCHANGED <<mpath, events>>
                ELSE IF ~ex.ok THEN Thrown(ex.kind, "extraction") /\ UNCHANGED <<mpath, events>>
                ELSE IF ~dp.ok THEN Thrown(dp.kind, "extraction") /\ mpath' = dp.path
                                    /\ UNCHANGED events
                ELSE /\ mpath' = dp.path
                     /\ events' = Emit(Emit(events, "extraction", 20), "database", 25)
                     /\ mpc' = "createdb"
                     /\ UNCHANGED <<staged, failPhase, cleanupRuns>>
    /\ UNCHANGED <<db, txdb, txOpen, clientHeld, rpc, spc, pathArg, path, result, idx, scriptRet,
                   executed, txlog>>
    /\ UNCHANGED <<config, archive, dump, tempDir, scratch, dbContext, tempDb, pool, outcome,
                   teardown, output>>
    /\ UNCHANGED <<pgVars, loadVars, callVars>>

\* dbContext = await createTempDatabase(...); pool = createPool(dbContext)
MigrateCreateDb ==
    /\ mpc = "createdb"
    /\ \E createFail \in Faulty, endFail \in Faulty :
         /\ Count(createFail) + Count(endFail) <= MaxFaults - faults
         /\ createFail => ~endFail
         /\ faults' = faults + Count(createFail) + Count(endFail)
         /\ tempDb' = IF createFail THEN tempDb ELSE "exists"
         /\ IF createFail
            THEN Thrown("create_database_failed", "database") /\ UNCHANGED <<dbContext, pool>>
            ELSE IF endFail
            THEN Thrown("admin_pool_end_failed", "database") /\ UNCHANGED <<dbContext, pool>>
            ELSE /\ dbContext' = TRUE
                 /\ pool' = "open"
                 /\ mpc' = "verify"
                 /\ UNCHANGED <<staged, failPhase, cleanupRuns>>
    /\ UNCHANGED <<db, txdb, txOpen, clientHeld, rpc, spc, pathArg, path, result, idx, scriptRet,
                   executed, txlog>>
    /\ UNCHANGED <<config, archive, dump, tempDir, scratch, mpath, outcome, events, teardown, output>>
    /\ UNCHANGED <<pgVars, loadVars, callVars>>

\* const connected = await verifyConnection(pool, logger); if (!connected) throw
MigrateVerify ==
    /\ mpc = "verify"
    /\ \E envFail \in Faulty :
         /\ faults' = faults + Count(envFail)
         /\ IF envFail
            THEN Thrown("connect_failed", "database") /\ UNCHANGED events
            ELSE /\ events' = Emit(events, "database", 30)
                 /\ mpc' = "load"
                 /\ UNCHANGED <<staged, failPhase, cleanupRuns>>
    /\ UNCHANGED <<db, txdb, txOpen, clientHeld, rpc, spc, pathArg, path, result, idx, scriptRet,
                   executed, txlog>>
    /\ UNCHANGED <<config, archive, dump, tempDir, scratch, dbContext, tempDb, pool, mpath,
                   outcome, teardown, output>>
    /\ UNCHANGED <<pgVars, loadVars, callVars>>

\* verifyDumpImport: the tables loadDumpFile insists on
DumpCriticalTables == {"ir_module_module", "ir_config_parameter", "res_users"}

\* the exit codes psql ends with: 0 success, 1 its own fatal error, 2 connection lost,
\* 3 an error in the script
ExitCodes == {0, 1, 2, 3}

\* the 'close' handler of loadDumpFile resolves on these codes
AcceptedExitCodes == {0, 3}

\* a verification that believes psql
verifyDumpImportTrusting(dbv, queryFail, endFail) ==
    [ok |-> TRUE, kind |-> ""]

\* verifyDumpImport: one catalog query per critical table, a count query, and the pool
\* ended in the finally block, whose own failure replaces whatever the body threw
verifyDumpImport(dbv, queryFail, endFail) ==
    LET body == IF queryFail THEN "verify_query_failed"
                ELSE IF ~(DumpCriticalTables \subseteq dbv.tables) THEN "import_incomplete"
                ELSE ""
        kind == IF endFail THEN "pool_end_failed" ELSE body
    IN [ok |-> kind = "", kind |-> kind]

\* loadDumpFile on an extracted dump file: psql is spawned without ON_ERROR_STOP, so what
\* reaches the database is whatever the dump's statements managed to create
loadDumpFile(dumpv, spawnFail, code, queryFail, endFail) ==
    IF spawnFail \/ code \notin AcceptedExitCodes
    THEN [ok |-> FALSE, kind |-> "psql_failed", db |-> EmptyDb]
    ELSE LET v == verifyDumpImport(dumpv, queryFail, endFail)
         IN [ok |-> v.ok, kind |-> v.kind, db |-> dumpv]

\* await loadDumpFile(...); then runMigration is called (lines 141-153)
MigrateLoad ==
    /\ mpc = "load"
    /\ \E spawnFail \in Faulty, code \in ExitCodes, queryFail \in Faulty, endFail \in Faulty :
         LET r == loadDumpFile(dump, spawnFail, code, queryFail, endFail)
             used == Count(spawnFail) + Count(code \notin AcceptedExitCodes)
                     + Count(queryFail) + Count(endFail)
         IN /\ faults + used <= MaxFaults
            /\ spawnFail => code = 0
            /\ (spawnFail \/ code \notin AcceptedExitCodes) => (~queryFail /\ ~endFail)
            /\ faults' = faults + used
            /\ db' = r.db
            /\ txdb' = r.db
            /\ IF ~r.ok
               THEN Thrown(r.kind, "database")
                    /\ UNCHANGED <<events, rpc, pathArg>>
               ELSE /\ events' = Emit(Emit(events, "database", 45), "migration", 50)
                    /\ rpc' = "called"
                    /\ pathArg' = mpath
                    /\ mpc' = "migrating"
                    /\ UNCHANGED <<staged, failPhase, cleanupRuns>>
    /\ UNCHANGED <<txOpen, clientHeld, spc, path, result, idx, scriptRet, executed, txlog>>
    /\ UNCHANGED <<config, archive, dump, tempDir, scratch, dbContext, tempDb, pool, mpath,
                   outcome, teardown, output>>
    /\ UNCHANGED <<pgVars, loadVars, callVars>>

\* a continuation that exports whatever runMigration reported
MigrateAfterRunRegardless ==
    /\ mpc = "migrating" /\ rpc = "done"
    /\ events' = Emit(Emit(events, "migration", 75), "export", 80)
    /\ mpc' = "poolend"
    /\ UNCHANGED <<staged, failPhase, cleanupRuns>>
    /\ UNCHANGED orchVars
    /\ UNCHANGED <<config, archive, dump, tempDir, scratch, dbContext, tempDb, pool, mpath,
                   outcome, teardown, output>>
    /\ UNCHANGED <<pgVars, loadVars, callVars>>

\* runMigration has resolved: lines 155-180
MigrateAfterRun ==
    /\ mpc = "migrating" /\ rpc = "done"
    /\ IF ~result.success
       THEN /\ Returned(result)
            /\ failPhase' = "migration"
            /\ UNCHANGED events
       ELSE /\ events' = Emit(Emit(events, "migration", 75), "export", 80)
            /\ mpc' = "poolend"
            /\ UNCHANGED <<staged, failPhase, cleanupRuns>>
    /\ UNCHANGED orchVars
    /\ UNCHANGED <<config, archive, dump, tempDir, scratch, dbContext, tempDb, pool, mpath,
                   outcome, teardown, output>>
    /\ UNCHANGED <<pgVars, loadVars, callVars>>

\* await pool.end(); pool = null
MigratePoolEnd ==
    /\ mpc = "poolend"
    /\ \E envFail \in Faulty :
         /\ faults' = faults + Count(envFail)
         /\ IF envFail
            THEN Thrown("pool_end_failed", "export") /\ UNCHANGED pool
            ELSE /\ pool' = "null"
                 /\ mpc' = "export"
                 /\ UNCHANGED <<staged, failPhase, cleanupRuns>>
    /\ UNCHANGED <<db, txdb, txOpen, clientHeld, rpc, spc, pathArg, path, result, idx, scriptRet,
                   executed, txlog>>
    /\ UNCHANGED <<config, archive, dump, tempDir, scratch, dbContext, tempDb, mpath, outcome,
                   events, teardown, output>>
    /\ UNCHANGED <<pgVars, loadVars, callVars>>

\* the export step without its exits: a failed pg_dump is passed over and the run goes
\* on to repack
MigrateExportRegardless ==
    /\ mpc = "export"
    /\ \E dumpFail \in Faulty :
         /\ Count(dumpFail) <= MaxFaults - faults
         /\ faults' = faults + Count(dumpFail)
         /\ events' = IF dumpFail THEN events ELSE Emit(events, "export", 90)
         /\ mpc' = "pack"
         /\ UNCHANGED <<staged, failPhase, cleanupRuns>>
    /\ UNCHANGED <<db, txdb, txOpen, clientHeld, rpc, spc, pathArg, path, result, idx, scriptRet,
                   executed, txlog>>
    /\ UNCHANGED <<config, archive, dump, tempDir, scratch, dbContext, tempDb, pool, mpath,
                   outcome, teardown, output>>
    /\ UNCHANGED <<pgVars, loadVars, callVars>>

\* await exportDatabase(...); updateManifest(...); emitProgress(90)
MigrateExport ==
    /\ mpc = "export"
    /\ \E dumpFail \in Faulty, manifestFail \in Faulty :
         /\ Count(dumpFail) + Count(manifestFail) <= MaxFaults - faults
         /\ dumpFail => ~manifestFail
         /\ faults' = faults + Count(dumpFail) + Count(manifestFail)
         /\ IF dumpFail THEN Thrown("pg_dump_failed", "export") /\ UNCHANGED events
            ELSE IF manifestFail THEN Thrown("manifest_update_failed", "export") /\ UNCHANGED events
            ELSE /\ events' = Emit(events, "export", 90)
                 /\ mpc' = "pack"
                 /\ UNCHANGED <<staged, failPhase, cleanupRuns>>
    /\ UNCHANGED <<db, txdb, txOpen, clientHeld, rpc, spc, pathArg, path, result, idx, scriptRet,
                   executed, txlog>>
    /\ UNCHANGED <<config, archive, dump, tempDir, scratch, dbContext, tempDb, pool, mpath,
                   outcome, teardown, output>>
    /\ UNCHANGED <<pgVars, loadVars, callVars>>

\* manifest.json in the scratch directory after updateManifest (lines 194-198)
ScratchManifest ==
    updateManifest(InputManifest(archive),
                   [version |-> getMigrationPathInfo(mpath).target, db_name |-> archive.db_name],
                   Now)

\* await packBackup(...); emitProgress(100); the text report; return migrationResult
\* (config.outputPath ends in .zip here; SpecReport looks at other output paths)
MigratePack ==
    /\ mpc = "pack"
    /\ \E packFail \in Faulty, reportFail \in Faulty :
         /\ Count(packFail) + Count(reportFail) <= MaxFaults - faults
         /\ packFail => ~reportFail
         /\ faults' = faults + Count(packFail) + Count(reportFail)
         /\ IF packFail
            THEN Thrown("pack_failed", "export") /\ UNCHANGED <<events, output>>
            ELSE /\ events' = Emit(events, "export", 100)
                 /\ output' = [archive |-> "written",
                               manifest |-> ScratchManifest,
                               report |-> IF reportFail THEN "none" ELSE "written"]
                 /\ Returned(result)
                 /\ UNCHANGED failPhase
    /\ UNCHANGED <<db, txdb, txOpen, clientHeld, rpc, spc, pathArg, path, result, idx, scriptRet,
                   executed, txlog>>
    /\ UNCHANGED <<config, archive, dump, tempDir, scratch, dbContext, tempDb, pool, mpath,
                   outcome, teardown>>
    /\ UNCHANGED <<pgVars, loadVars, callVars>>


(***************************************************************************)
(* migrate: the finally block, lines 276-302                               *)
(***************************************************************************)
\* if (pool) { try { await pool.end() } catch { warn } }
FinPool ==
    /\ mpc = "fin_pool"
    /\ \E envFail \in Faulty :
         /\ (pool = "null") => ~envFail
         /\ faults' = faults + Count(envFail)
         /\ IF pool = "null"
            THEN UNCHANGED <<pool, teardown>>
            ELSE /\ teardown' = Append(teardown, "pool.end")
                 /\ pool' = IF envFail THEN pool ELSE "ended"
    /\ mpc' = "fin_drop"
    /\ UNCHANGED <<db, txdb, txOpen, clientHeld, rpc, spc, pathArg, path, result, idx, scriptRet,
                   executed, txlog>>
    /\ UNCHANGED <<config, archive, dump, tempDir, scratch, dbContext, tempDb, mpath, staged,
                   outcome, events, failPhase, cleanupRuns, output>>
    /\ UNCHANGED <<pgVars, loadVars, callVars>>

\* dropTempDatabase: the commands issued, in order, given which of them fail
dropTempDatabase(termFail, dropFail) ==
    [issued |-> IF termFail THEN <<"terminate">> ELSE <<"terminate", "drop">>,
     dropped |-> ~termFail /\ ~dropFail]

\* if (dbContext) { await dropTempDatabase(...) }: an exception leaves migrate
FinDrop ==
    /\ mpc = "fin_drop"
    /\ \E termFail \in Faulty, dropFail \in Faulty, endFail \in Faulty :
         LET d == dropTempDatabase(termFail, dropFail)
         IN  /\ Count(termFail) + Count(dropFail) + Count(endFail) <= MaxFaults - faults
             /\ termFail => ~dropFail
             /\ ~dbContext => (~termFail /\ ~dropFail /\ ~endFail)
             /\ faults' = faults + Count(termFail) + Count(dropFail) + Count(endFail)
             /\ IF ~dbContext
                THEN /\ mpc' = "fin_tempdir"
                     /\ UNCHANGED <<teardown, tempDb, outcome>>
                ELSE /\ teardown' = teardown \o d.issued \o <<"adminPool.end">>
                     /\ tempDb' = IF d.dropped THEN "dropped" ELSE tempDb
                     /\ IF endFail
                        THEN mpc' = "exited" /\ outcome' = "rejected"
                        ELSE mpc' = "fin_tempdir" /\ outcome' = outcome
    /\ UNCHANGED <<db, txdb, txOpen, clientHeld, rpc, spc, pathArg, path, result, idx, scriptRet,
                   executed, txlog>>
    /\ UNCHANGED <<config, archive, dump, tempDir, scratch, dbContext, pool, mpath, staged,
                   events, failPhase, cleanupRuns, output>>
    /\ UNCHANGED <<pgVars, loadVars, callVars>>

\* cleanupTempDirectory unless keepTemp; then migrate completes as the try/catch part decided
FinTempDir ==
    /\ mpc = "fin_tempdir"
    /\ \E envFail \in Faulty :
         /\ ~(tempDir /\ ~config.keepTemp) => ~envFail
         /\ faults' = faults + Count(envFail)
         /\ IF tempDir /\ ~config.keepTemp
            THEN /\ teardown' = Append(teardown, "rm")
                 /\ scratch' = IF envFail THEN scratch ELSE "removed"
            ELSE UNCHANGED <<teardown, scratch>>
    /\ outcome' = "resolved"
    /\ mpc' = "exited"
    /\ UNCHANGED <<db, txdb, txOpen, clientHeld, rpc, spc, pathArg, path, result, idx, scriptRet,
                   executed, txlog>>
    /\ UNCHANGED <<config, archive, dump, tempDir, dbContext, tempDb, pool, mpath, staged,
                   events, failPhase, cleanupRuns, output>>
    /\ UNCHANGED <<pgVars, loadVars, callVars>>

MigrateNext ==
    \/ MigrateStart
    \/ MigrateExtract
    \/ MigrateCreateDb
    \/ MigrateVerify
    \/ MigrateLoad
    \/ MigrateAfterRun
    \/ MigratePoolEnd
    \/ MigrateExport
    \/ MigratePack
    \/ FinPool
    \/ FinDrop
    \/ FinTempDir

(***************************************************************************)
(* migrate called on an archive                                            *)
(***************************************************************************)
Layouts ==
    { <<"root", "root">>, <<"w", "w">>, <<"absent", "root">>, <<"root", "absent">>,
      <<"absent", "absent">>, <<"w", "v">>, <<"deep", "deep">> }
ManifestVersions == {V160, V170, V172, V150, NoStr}
ManifestExtras == { <<"prod", "t0">>, <<"undefined", "t0">>, <<"prod", "undefined">> }
Archives ==
    { [dump |-> l[1], manifest |-> l[2], version |-> v, db_name |-> x[1], timestamp |-> x[2]] :
        l \in Layouts, v \in ManifestVersions, x \in ManifestExtras }

DumpTableSets ==
    { StandardTables,
      StandardTables \cup OptionalObjects,
      MinimalTables,
      StandardTables \ {"res_partner"},
      StandardTables \ {"ir_config_parameter"} }
DumpMarkerRows == { <<>>, <<V160>>, <<V170>> }
Dumps ==
    { d \in [tables : DumpTableSets, markerRows : DumpMarkerRows, effects : {{}}] :
        d.markerRows = <<>> \/ "ir_config_parameter" \in d.tables }
CanonicalDump == [tables |-> StandardTables, markerRows |-> <<V160>>, effects |-> {}]

\* the archive gets as far as the database phase
Loadable(a, cfgPath) == extractBackup(a).ok /\ DeterminePath(cfgPath, a.version).ok

InitMigrate ==
    /\ config \in [migrationPath : MigrationPaths \cup {NoPath}, keepTemp : BOOLEAN]
    /\ archive \in Archives
    /\ dump \in Dumps
    \* inputs that are never read are fixed
    /\ ~extractBackup(archive).ok => archive.version \in {V160, NoStr}
    /\ ~Loadable(archive, config.migrationPath) =>
           (dump = CanonicalDump /\ archive.db_name = "prod" /\ archive.timestamp = "t0")
    /\ mpc = "start"
    /\ db = EmptyDb
    /\ txdb = EmptyDb
    /\ txOpen = FALSE
    /\ clientHeld = FALSE
    /\ faults = 0
    /\ rpc = "idle"
    /\ spc = "idle"
    /\ pathArg = NoPath
    /\ path = NoPath
    /\ result = NoResult
    /\ idx = 0
    /\ scriptRet = Undefined
    /\ executed = <<>>
    /\ txlog = <<>>
    /\ tempDir = FALSE
    /\ scratch = "none"
    /\ dbContext = FALSE
    /\ tempDb = "none"
    /\ pool = "null"
    /\ mpath = NoPath
    /\ staged = Staged("none", NoResult)
    /\ outcome = "running"
    /\ events = <<>>
    /\ failPhase = ""
    /\ cleanupRuns = 0
    /\ teardown = <<>>
    /\ output = NoOutput
    /\ PgIdle
    /\ LoadIdle
    /\ CallIdle

NextMigrate == MigrateNext \/ RunMigrationNext

SpecMigrate == InitMigrate /\ [][NextMigrate]_vars


(***************************************************************************)
(* EmbeddedPostgres: init, start, stop, cleanup.  Each call runs to its    *)
(* end before the next one is made; the tools it spawns and the file       *)
(* operations it performs succeed or fail as the machine decides.          *)
(***************************************************************************)
MaxCalls == 5

\* options.port || 0, and the ports findFreePort can come back with
ConfiguredPorts == {0, 5432}
FreePorts == {15432, 15433}

Call(op, log, threw) == [op |-> op, log |-> log, threw |-> threw]
Ran(tool, ok) == [tool |-> tool, ok |-> ok]

\* the steps of a call that may fail, while the budget of failures lasts
FailureOf(steps) == {"none"} \cup (IF faults < MaxFaults THEN steps ELSE {})

otherVars == <<db, txdb, txOpen, clientHeld, rpc, spc, pathArg, path, result, idx, scriptRet,
               executed, txlog, pipeVars, loadVars, callVars>>

\* an init() that always goes through its steps
AlreadyInitializedNever == FALSE

\* if (this.initialized) return
AlreadyInitialized == initialized

\* init(): select a port, clear the data directory, run initdb, write the
\* configuration; the password file is removed in the finally block
PgInit ==
    /\ pgCalls < MaxCalls
    /\ pgCalls' = pgCalls + 1
    /\ IF AlreadyInitialized
       THEN /\ pgLast' = Call("init", <<>>, FALSE)
            /\ UNCHANGED <<initialized, port, dataDir, faults>>
       ELSE \E fail \in FailureOf({"findFreePort", "rm", "pwfile", "initdb", "conf", "unlink"}),
               free \in FreePorts, left \in {"absent", "foreign"} :
              LET selects == port = 0
                  clears == dataDir # "absent"
                  portLog == IF selects THEN <<Ran("findFreePort", fail # "findFreePort")>> ELSE <<>>
                  rmLog == IF clears THEN <<Ran("rm", fail # "rm")>> ELSE <<>>
              IN  /\ (fail = "findFreePort") => selects
                  /\ (fail = "rm") => clears
                  /\ (fail # "initdb") => left = "absent"
                  /\ faults' = faults + Count(fail # "none")
                  /\ CASE fail = "findFreePort" ->
                            /\ pgLast' = Call("init", portLog, TRUE)
                            /\ UNCHANGED <<initialized, port, dataDir>>
                       [] fail = "rm" ->
                            /\ port' = IF selects THEN free ELSE port
                            /\ pgLast' = Call("init", portLog \o rmLog, TRUE)
                            /\ UNCHANGED <<initialized, dataDir>>
                       [] fail = "pwfile" ->
                            /\ port' = IF selects THEN free ELSE port
                            /\ dataDir' = "absent"
                            /\ pgLast' = Call("init", portLog \o rmLog \o <<Ran("pwfile", FALSE)>>, TRUE)
                            /\ UNCHANGED initialized
                       [] fail = "initdb" ->
                            /\ port' = IF selects THEN free ELSE port
                            /\ dataDir' = left
                            /\ pgLast' = Call("init", portLog \o rmLog \o
                                              <<Ran("pwfile", TRUE), Ran("initdb", FALSE),
                                                Ran("unlink", TRUE)>>, TRUE)
                            /\ UNCHANGED initialized
                       [] fail = "conf" ->
                            /\ port' = IF selects THEN free ELSE port
                            /\ dataDir' = "cluster"
                            /\ pgLast' = Call("init", portLog \o rmLog \o
                                              <<Ran("pwfile", TRUE), Ran("initdb", TRUE),
                                                Ran("conf", FALSE), Ran("unlink", TRUE)>>, TRUE)
                            /\ UNCHANGED initialized
                       [] OTHER ->
                            /\ port' = IF selects THEN free ELSE port
                            /\ dataDir' = "cluster"
                            /\ initialized' = TRUE
                            /\ pgLast' = Call("init", portLog \o rmLog \o
                                              <<Ran("pwfile", TRUE), Ran("initdb", TRUE),
                                                Ran("conf", TRUE), Ran("unlink", fail # "unlink")>>,
                                              fail = "unlink")
    /\ UNCHANGED <<running, autoDataDir, serverUp, pgStopped>>
    /\ UNCHANGED otherVars

\* pg_ctl start can bring the server up: there is a cluster and no server on it
Startable == dataDir = "cluster" /\ ~serverUp

\* start(): pg_ctl start -w, then waitForReady
PgStart ==
    /\ pgCalls < MaxCalls
    /\ pgCalls' = pgCalls + 1
    /\ IF running
       THEN /\ pgLast' = Call("start", <<>>, FALSE)
            /\ UNCHANGED <<running, serverUp, faults>>
       ELSE IF ~initialized
       THEN /\ pgLast' = Call("start", <<>>, TRUE)
            /\ UNCHANGED <<running, serverUp, faults>>
       ELSE \E fail \in FailureOf({"pg_ctl start", "waitForReady"}), late \in BOOLEAN :
              LET started == Startable /\ fail # "pg_ctl start"
              IN  /\ (fail = "waitForReady") => started
                  \* a pg_ctl start that gave up waiting may still have launched the server
                  /\ late => (Startable /\ fail = "pg_ctl start")
                  /\ faults' = faults + Count(fail # "none")
                  /\ serverUp' = (serverUp \/ started \/ late)
                  /\ IF ~started
                     THEN /\ pgLast' = Call("start", <<Ran("pg_ctl start", FALSE)>>, TRUE)
                          /\ UNCHANGED running
                     ELSE IF fail = "waitForReady"
                     THEN /\ pgLast' = Call("start", <<Ran("pg_ctl start", TRUE),
                                                       Ran("waitForReady", FALSE)>>, TRUE)
                          /\ UNCHANGED running
                     ELSE /\ pgLast' = Call("start", <<Ran("pg_ctl start", TRUE),
                                                       Ran("waitForReady", TRUE)>>, FALSE)
                          /\ running' = TRUE
    /\ UNCHANGED <<initialized, port, autoDataDir, dataDir, pgStopped>>
    /\ UNCHANGED otherVars

\* a stop() that gives up after the first attempt
stopOnce(fastFail, immFail) ==
    IF ~running THEN [log |-> <<>>, serverUp |-> serverUp]
    ELSE LET fastOk == serverUp /\ ~fastFail
         IN  [log |-> <<Ran("pg_ctl stop fast", fastOk)>>, serverUp |-> serverUp /\ ~fastOk]

\* stop(): nothing unless running; pg_ctl stop -m fast, and when that rejects
\* pg_ctl stop -m immediate, whose failure is only logged
stop(fastFail, immFail) ==
    IF ~running THEN [log |-> <<>>, serverUp |-> serverUp]
    ELSE LET fastOk == serverUp /\ ~fastFail
             immOk == serverUp /\ ~immFail
         IN  IF fastOk
             THEN [log |-> <<Ran("pg_ctl stop fast", TRUE)>>, serverUp |-> FALSE]
             ELSE [log |-> <<Ran("pg_ctl stop fast", FALSE), Ran("pg_ctl stop immediate", immOk)>>,
                   serverUp |-> serverUp /\ ~immOk]

PgStop ==
    /\ pgCalls < MaxCalls
    /\ pgCalls' = pgCalls + 1
    /\ \E fastFail \in Faulty, immFail \in Faulty :
         LET st == stop(fastFail, immFail)
         IN  /\ Count(fastFail) + Count(immFail) <= MaxFaults - faults
             /\ (fastFail \/ immFail) => (running /\ serverUp)
             /\ immFail => fastFail
             /\ faults' = faults + Count(fastFail) + Count(immFail)
             /\ serverUp' = st.serverUp
             /\ running' = FALSE
             /\ pgStopped' = (pgStopped \/ (running /\ ~st.serverUp))
             /\ pgLast' = Call("stop", st.log, FALSE)
    /\ UNCHANGED <<initialized, port, autoDataDir, dataDir>>
    /\ UNCHANGED otherVars

\* a cleanup() that removes whatever data directory there is
cleanupRemovesAny == dataDir # "absent"

\* if (this.autoDataDir && fs.existsSync(this.dataDir))
cleanupRemoves == autoDataDir /\ dataDir # "absent"

\* cleanup(): stop(), then the data directory is removed if it was auto-generated
PgCleanup ==
    /\ pgCalls < MaxCalls
    /\ pgCalls' = pgCalls + 1
    /\ \E fastFail \in Faulty, immFail \in Faulty, rmFail \in Faulty :
         LET st == stop(fastFail, immFail)
         IN  /\ Count(fastFail) + Count(immFail) + Count(rmFail) <= MaxFaults - faults
             /\ (fastFail \/ immFail) => (running /\ serverUp)
             /\ immFail => fastFail
             /\ rmFail => cleanupRemoves
             /\ faults' = faults + Count(fastFail) + Count(immFail) + Count(rmFail)
             /\ serverUp' = st.serverUp
             /\ running' = FALSE
             /\ pgStopped' = (pgStopped \/ (running /\ ~st.serverUp))
             /\ IF cleanupRemoves
                THEN /\ dataDir' = IF rmFail THEN dataDir ELSE "absent"
                     /\ pgLast' = Call("cleanup", st.log \o <<Ran("rm", ~rmFail)>>, FALSE)
                ELSE /\ dataDir' = dataDir
                     /\ pgLast' = Call("cleanup", st.log, FALSE)
    /\ UNCHANGED <<initialized, port, autoDataDir>>
    /\ UNCHANGED otherVars

PgNext ==
    \/ PgInit
    \/ PgStart
    \/ PgStop
    \/ PgCleanup

\* no migration is in progress
ProgramIdle ==
    /\ db = EmptyDb
    /\ txdb = EmptyDb
    /\ txOpen = FALSE
    /\ clientHeld = FALSE
    /\ faults = 0
    /\ rpc = "idle"
    /\ spc = "idle"
    /\ pathArg = NoPath
    /\ path = NoPath
    /\ result = NoResult
    /\ idx = 0
    /\ scriptRet = Undefined
    /\ executed = <<>>
    /\ txlog = <<>>
    /\ mpc = "none"
    /\ config = [migrationPath |-> NoPath, keepTemp |-> FALSE]
    /\ archive = NoArchive
    /\ dump = EmptyDb
    /\ tempDir = FALSE
    /\ scratch = "none"
    /\ dbContext = FALSE
    /\ tempDb = "none"
    /\ pool = "null"
    /\ mpath = NoPath
    /\ staged = Staged("none", NoResult)
    /\ outcome = "running"
    /\ events = <<>>
    /\ failPhase = ""
    /\ cleanupRuns = 0
    /\ teardown = <<>>
    /\ output = NoOutput

\* new EmbeddedPostgres(options): a caller-supplied data directory may hold anything
InitPg ==
    /\ initialized = FALSE
    /\ running = FALSE
    /\ port \in ConfiguredPorts
    /\ autoDataDir \in BOOLEAN
    /\ dataDir \in (IF autoDataDir THEN {"absent"} ELSE {"absent", "foreign", "cluster"})
    /\ serverUp = FALSE
    /\ pgCalls = 0
    /\ pgLast = NoCall
    /\ pgStopped = FALSE
    /\ db = EmptyDb
    /\ txdb = EmptyDb
    /\ txOpen = FALSE
    /\ clientHeld = FALSE
    /\ faults = 0
    /\ rpc = "idle"
    /\ spc = "idle"
    /\ pathArg = NoPath
    /\ path = NoPath
    /\ result = NoResult
    /\ idx = 0
    /\ scriptRet = Undefined
    /\ executed = <<>>
    /\ txlog = <<>>
    /\ mpc = "none"
    /\ config = [migrationPath |-> NoPath, keepTemp |-> FALSE]
    /\ archive = NoArchive
    /\ dump = EmptyDb
    /\ tempDir = FALSE
    /\ scratch = "none"
    /\ dbContext = FALSE
    /\ tempDb = "none"
    /\ pool = "null"
    /\ mpath = NoPath
    /\ staged = Staged("none", NoResult)
    /\ outcome = "running"
    /\ events = <<>>
    /\ failPhase = ""
    /\ cleanupRuns = 0
    /\ teardown = <<>>
    /\ output = NoOutput
    /\ LoadIdle
    /\ CallIdle

SpecPg == InitPg /\ [][PgNext]_vars

(***************************************************************************)
(* loadDumpFile on its own: every dump content, every way psql can end     *)
(* and every failure of the verification's queries (database.ts 539-637).  *)
(***************************************************************************)

\* what one call can meet; inputs the call never reads are held at one value
LoadInputs ==
    { i \in [dump : Dumps, spawnFail : BOOLEAN, code : ExitCodes,
             queryFail : BOOLEAN, endFail : BOOLEAN] :
        /\ i.spawnFail => i.code = 0
        /\ (i.spawnFail \/ i.code \notin AcceptedExitCodes) =>
              (~i.queryFail /\ ~i.endFail /\ i.dump = CanonicalDump) }

\* await loadDumpFile(dbContext, dumpPath, logger)
LoadCall ==
    /\ ~loadOut.called
    /\ LET r == loadDumpFile(loadIn.dump, loadIn.spawnFail, loadIn.code,
                             loadIn.queryFail, loadIn.endFail)
       IN loadOut' = [called |-> TRUE, ok |-> r.ok, kind |-> r.kind, db |-> r.db]
    /\ UNCHANGED <<loadIn, orchVars, pipeVars, pgVars, callVars>>

NextLoad == LoadCall

\* a temporary database has been created and the dump file extracted
InitLoad ==
    /\ loadIn \in LoadInputs
    /\ loadOut = NotLoaded
    /\ PgIdle
    /\ ProgramIdle
    /\ CallIdle

SpecLoad == InitLoad /\ [][NextLoad]_vars


(***************************************************************************)
(* collectPostMigrationStats on its own (database.ts 706-737): five count  *)
(* queries, each inside its own try/catch.                                 *)
(***************************************************************************)

\* the keys of PostMigrationStats, in the order of the queries
StatKeys == <<"tableCount", "moduleCount", "installedModuleCount", "partnerCount", "userCount">>

\* the table a statistic's query reads; the table count reads the catalog
StatTable(key) ==
    CASE key = "moduleCount" -> "ir_module_module"
      [] key = "installedModuleCount" -> "ir_module_module"
      [] key = "partnerCount" -> "res_partner"
      [] key = "userCount" -> "res_users"
      [] OTHER -> "information_schema.tables"

\* what SELECT COUNT(*) answers for a statistic on a database that has the table
StatCount(dbv, key) ==
    CASE key = "tableCount" -> Cardinality(dbv.tables)
      [] key = "installedModuleCount" -> dbv.installed
      [] OTHER -> dbv.rows[StatTable(key)]

\* pool.query(q.sql) rejects: the table is not there, or the connection fails
StatQueryFails(dbv, failing, key) ==
    \/ key \in failing
    \/ (key # "tableCount" /\ StatTable(key) \notin dbv.tables)

ZeroStats == [k \in Range(StatKeys) |-> 0]

RECURSIVE CollectFrom(_, _, _, _)
\* the for loop over the queries from the i-th on: a failing query leaves its key as it is
CollectFrom(dbv, failing, i, stats) ==
    IF i > Len(StatKeys) THEN stats
    ELSE IF StatQueryFails(dbv, failing, StatKeys[i])
         THEN CollectFrom(dbv, failing, i + 1, stats)
         ELSE CollectFrom(dbv, failing, i + 1,
                          [stats EXCEPT ![StatKeys[i]] = StatCount(dbv, StatKeys[i])])

\* a collection without the try/catch around each query: the first failure leaves the call
collectPostMigrationStatsUncaught(dbv, failing) ==
    LET bad == {k \in Range(StatKeys) : StatQueryFails(dbv, failing, k)}
    IN [threw |-> bad # {},
        stats |-> IF bad # {} THEN ZeroStats ELSE CollectFrom(dbv, failing, 1, ZeroStats),
        warned |-> {}]

\* collectPostMigrationStats(pool, logger): the statistics returned and the warnings logged
collectPostMigrationStats(dbv, failing) ==
    [threw |-> FALSE,
     stats |-> CollectFrom(dbv, failing, 1, ZeroStats),
     warned |-> {k \in Range(StatKeys) : StatQueryFails(dbv, failing, k)}]

\* the tables the statistics read and the row counts tried
StatTables == {"ir_module_module", "res_partner", "res_users"}
RowCounts == {0, 2}

\* migrated databases and failing connections; a missing table has no rows
StatInputs ==
    { i \in [fn : {"collectPostMigrationStats"},
             tables : SUBSET StatTables,
             rows : [StatTables -> RowCounts],
             installed : {0, 1},
             failing : SUBSET Range(StatKeys)] :
        /\ \A t \in StatTables : t \notin i.tables => i.rows[t] = 0
        /\ i.installed <= i.rows["ir_module_module"]
        /\ Cardinality(i.failing) <= MaxFaults }

\* const postStats = await collectPostMigrationStats(pool, logger)
StatsCall ==
    /\ callIn.fn = "collectPostMigrationStats"
    /\ callOut = Unapplied
    /\ LET r == collectPostMigrationStats(callIn, callIn.failing)
       IN callOut' = [fn |-> callIn.fn, threw |-> r.threw, stats |-> r.stats, warned |-> r.warned]
    /\ UNCHANGED <<callIn, orchVars, pipeVars, pgVars, loadVars>>

NextStats == StatsCall

InitStats ==
    /\ callIn \in StatInputs
    /\ callOut = Unapplied
    /\ ProgramIdle
    /\ PgIdle
    /\ LoadIdle

SpecStats == InitStats /\ [][NextStats]_vars


(***************************************************************************)
(* extractBackup, and packBackup right after it, on their own              *)
(* (extractor.ts 89-187 and 216-257).                                      *)
(***************************************************************************)

\* what the scratch directory holds at dir/name after zip.extractAllTo
ExtractedFile(a, dir, name) ==
    CASE name = "dump.sql" -> IF a.dump = dir THEN a.dumpBytes ELSE "absent"
      [] name = "manifest.json" -> IF a.manifest = dir THEN InputManifest(a) ELSE NoManifest
      [] OTHER -> "absent"

\* the files under dir/filestore in the scratch directory
ExtractedFilestore(a, dir) == IF a.filestore = dir THEN a.files ELSE {}

\* BackupContents: the three paths all lie in the folder dump.sql was found in
BackupContents(dir) == [dumpPath |-> dir, manifestPath |-> dir, filestorePath |-> dir]

\* a packer that takes the filestore from the top of the scratch directory
packBackupFlatFilestore(a, contents) ==
    [dump |-> ExtractedFile(a, contents.dumpPath, "dump.sql"),
     manifest |-> ExtractedFile(a, contents.manifestPath, "manifest.json"),
     filestore |-> ExtractedFilestore(a, "root")]

\* packBackup: dump.sql, manifest.json and the filestore folder (an empty filestore/ entry
\* when the folder does not exist) go to the root of the new archive
packBackup(a, contents) ==
    [dump |-> ExtractedFile(a, contents.dumpPath, "dump.sql"),
     manifest |-> ExtractedFile(a, contents.manifestPath, "manifest.json"),
     filestore |-> ExtractedFilestore(a, contents.filestorePath)]

\* where dump.sql, manifest.json and the filestore folder sit in the archive
ArchiveLayouts ==
    { <<"root", "root", "root">>, <<"w", "w", "w">>, <<"root", "root", "absent">>,
      <<"w", "w", "absent">>, <<"w", "w", "root">>, <<"root", "root", "w">>,
      <<"w", "v", "w">>, <<"root", "w", "root">>, <<"absent", "root", "root">>,
      <<"root", "absent", "root">>, <<"absent", "absent", "root">>,
      <<"deep", "deep", "deep">> }
DumpBytes == {"sqlA", "sqlB"}
FilestoreFiles == { {}, {"f1"}, {"f1", "f2"} }

\* archives with their contents; what is absent has no content
ArchiveInputs ==
    { a \in [fn : {"extractBackup"}, dump : {l[1] : l \in ArchiveLayouts},
             manifest : {l[2] : l \in ArchiveLayouts},
             filestore : {l[3] : l \in ArchiveLayouts},
             version : {V160, NoStr}, db_name : {"prod"}, timestamp : {"t0"},
             dumpBytes : DumpBytes, files : FilestoreFiles] :
        /\ <<a.dump, a.manifest, a.filestore>> \in ArchiveLayouts
        /\ a.dump = "absent" => a.dumpBytes = "sqlA"
        /\ a.manifest = "absent" => a.version = V160
        /\ a.filestore = "absent" => a.files = {} }

\* const extractionContext = await extractBackup(zipPath, tempDir, logger)
ExtractCall ==
    /\ callIn.fn = "extractBackup"
    /\ callOut = Unapplied
    /\ LET ex == extractBackup(callIn)
       IN callOut' = [fn |-> "extractBackup", ok |-> ex.ok, kind |-> ex.kind,
                      missing |-> ex.missing, unpacked |-> ex.unpacked,
                      contents |-> BackupContents(ex.dir)]
    /\ UNCHANGED <<callIn, orchVars, pipeVars, pgVars, loadVars>>

\* await packBackup(extractionContext.contents, outputPath, logger), nothing in between
PackCall ==
    /\ callOut # Unapplied
    /\ callOut.fn = "extractBackup"
    /\ callOut.ok
    /\ callOut' = [fn |-> "packBackup", contents |-> callOut.contents,
                   written |-> packBackup(callIn, callOut.contents)]
    /\ UNCHANGED <<callIn, orchVars, pipeVars, pgVars, loadVars>>

NextArchive == ExtractCall \/ PackCall

InitArchive ==
    /\ callIn \in ArchiveInputs
    /\ callOut = Unapplied
    /\ ProgramIdle
    /\ PgIdle
    /\ LoadIdle

SpecArchive == InitArchive /\ [][NextArchive]_vars


(***************************************************************************)
(* updateManifest on its own (extractor.ts 192-211).                       *)
(***************************************************************************)

\* the manifests on disk and the partial updates tried on them
StoredManifests ==
    [db_name : {"prod", "undefined"}, version : {V160, V170}, timestamp : {"t0", "undefined"}]
ManifestPatches ==
    { [k \in keys |-> full[k]] :
        full \in [db_name : {"test"}, version : {V170, V180}, timestamp : {"t1"}],
        keys \in SUBSET {"db_name", "version", "timestamp"} }
ManifestInputs ==
    [fn : {"updateManifest"}, manifest : StoredManifests, updates : ManifestPatches]

\* updateManifest(manifestPath, updates, logger): the object returned is the one written
ManifestCall ==
    /\ callIn.fn = "updateManifest"
    /\ callOut = Unapplied
    /\ callOut' = [fn |-> "updateManifest",
                   manifest |-> updateManifest(callIn.manifest, callIn.updates, Now)]
    /\ UNCHANGED <<callIn, orchVars, pipeVars, pgVars, loadVars>>

NextManifest == ManifestCall

InitManifest ==
    /\ callIn \in ManifestInputs
    /\ callOut = Unapplied
    /\ ProgramIdle
    /\ PgIdle
    /\ LoadIdle

SpecManifest == InitManifest /\ [][NextManifest]_vars


(***************************************************************************)
(* The text report of a successful run (index.ts 238-249, 308-318): where  *)
(* it is written, for output paths with and without a .zip extension.      *)
(***************************************************************************)

\* String.prototype.toLowerCase on the letters that matter to /\.zip$/i
LowerChar(c) ==
    CASE c = "Z" -> "z"
      [] c = "I" -> "i"
      [] c = "P" -> "p"
      [] OTHER -> c
ToLower(s) == [i \in 1..Len(s) |-> LowerChar(s[i])]

\* String.prototype.endsWith
EndsWith(s, suffix) ==
    /\ Len(s) >= Len(suffix)
    /\ SubSeq(s, Len(s) - Len(suffix) + 1, Len(s)) = suffix

ZipExt == <<".", "z", "i", "p">>
ReportSuffix == <<"-", "r", "e", "p", "o", "r", "t", ".", "t", "x", "t">>

\* config.outputPath.replace(/\.zip$/i, '-report.txt'): a path that does not end in .zip
\* comes back unchanged
ReportPath(outputPath) ==
    IF EndsWith(ToLower(outputPath), ZipExt)
    THEN SubSeq(outputPath, 1, Len(outputPath) - Len(ZipExt)) \o ReportSuffix
    ELSE outputPath

\* generateTextReport: the source/target line and the status line of the report
generateTextReport(success, pathInfo) ==
    [versions |-> <<pathInfo.source, pathInfo.target>>,
     status |-> IF success THEN "Status: Success" ELSE "Status: Failed"]
NoReport == [versions |-> <<NoStr, NoStr>>, status |-> ""]

\* output paths a caller may pass: --output takes any path
OutputDirs == { <<>>, <<"d", "/">> }
OutputExts ==
    { ZipExt, <<".", "Z", "I", "P">>, <<".", "Z", "i", "p">>, <<>>, <<".", "b", "a", "k">>,
      <<".", "z", "i", "p", ".", "b", "a", "k">>, <<".", "t", "a", "r">> }
OutputPaths == { d \o <<"o">> \o e : d \in OutputDirs, e \in OutputExts }

ReportInputs ==
    [fn : {"saveReport"}, outputPath : OutputPaths, path : MigrationPaths,
     writeFail : BOOLEAN]

\* packBackup has written the archive; the result of runMigration reports success
PackedCall ==
    /\ callIn.fn = "saveReport"
    /\ callOut = Unapplied
    /\ callOut' = [fn |-> "packBackup", outputFile |-> "archive", reportPath |-> <<>>,
                   reportText |-> NoReport, reportFilePath |-> <<>>, success |-> TRUE]
    /\ UNCHANGED <<callIn, orchVars, pipeVars, pgVars, loadVars>>

\* the try block that saves the report, and return migrationResult
SaveReportCall ==
    /\ callIn.fn = "saveReport"
    /\ callOut # Unapplied
    /\ callOut.fn = "packBackup"
    /\ LET reportPath == ReportPath(callIn.outputPath)
       IN callOut' =
            IF callIn.writeFail
            THEN [callOut EXCEPT !.fn = "saveReport"]
            ELSE [fn |-> "saveReport",
                  outputFile |-> IF reportPath = callIn.outputPath THEN "report" ELSE "archive",
                  reportPath |-> reportPath,
                  reportText |-> generateTextReport(callOut.success,
                                                    getMigrationPathInfo(callIn.path)),
                  reportFilePath |-> reportPath,
                  success |-> callOut.success]
    /\ UNCHANGED <<callIn, orchVars, pipeVars, pgVars, loadVars>>

NextReport == PackedCall \/ SaveReportCall

InitReport ==
    /\ callIn \in ReportInputs
    /\ callOut = Unapplied
    /\ ProgramIdle
    /\ PgIdle
    /\ LoadIdle

SpecReport == InitReport /\ [][NextReport]_vars


(***************************************************************************)
(* cleanupOrphanedInstances on its own (part_012 390-430).                 *)
(***************************************************************************)

\* the age threshold of one hour, in milliseconds
ONE_HOUR == 3600000

\* the number of odoo_pg_ directories found under the temp root
MaxDataDirs == 2

\* a directory left by an earlier instance: what postmaster.pid holds ("none": no file,
\* "garbage": nothing parseInt reads as a non-zero number), whether that process is still
\* alive, the age of the directory, and the file-system call that fails on it
DataDirs ==
    { d \in [pid : {"none", "recorded", "garbage"}, alive : BOOLEAN,
             age : {0, ONE_HOUR, ONE_HOUR + 1},
             fail : {"none", "read", "stat", "rm"}] :
        /\ d.alive => d.pid = "recorded"
        /\ d.fail = "read" => d.pid = "recorded"
        /\ d.fail = "rm" => d.age > ONE_HOUR }

\* a sweep that removes a directory only once its server is gone
OrphanEntryTied(d) ==
    [signalled |-> d.pid = "recorded" /\ d.fail # "read",
     removed |-> d.age > ONE_HOUR /\ d.fail \notin {"stat", "rm"} /\ ~d.alive]

\* the body of the for loop: process.kill(pid, 'SIGTERM') if a pid could be read, then
\* rmSync if the directory's mtime is more than an hour back; every failure is swallowed
OrphanEntry(d) ==
    [signalled |-> d.pid = "recorded" /\ d.fail # "read",
     removed |-> d.age > ONE_HOUR /\ d.fail \notin {"stat", "rm"}]

\* cleanupOrphanedInstances(logger): nothing happens when the scan of the temp root fails
cleanupOrphanedInstances(dirs, scanFail) ==
    [threw |-> FALSE,
     entries |-> IF scanFail THEN [i \in DOMAIN dirs |-> [signalled |-> FALSE, removed |-> FALSE]]
                 ELSE [i \in DOMAIN dirs |-> OrphanEntry(dirs[i])]]

OrphanInputs ==
    { i \in [fn : {"cleanupOrphanedInstances"},
             dirs : UNION { [1..n -> DataDirs] : n \in 0..MaxDataDirs },
             scanFail : BOOLEAN] :
        i.scanFail => Len(i.dirs) <= 1 }

\* cleanupOrphanedInstances(logger) at application start
OrphansCall ==
    /\ callIn.fn = "cleanupOrphanedInstances"
    /\ callOut = Unapplied
    /\ LET r == cleanupOrphanedInstances(callIn.dirs, callIn.scanFail)
       IN callOut' = [fn |-> callIn.fn, threw |-> r.threw, entries |-> r.entries]
    /\ UNCHANGED <<callIn, orchVars, pipeVars, pgVars, loadVars>>

NextOrphans == OrphansCall

InitOrphans ==
    /\ callIn \in OrphanInputs
    /\ callOut = Unapplied
    /\ ProgramIdle
    /\ PgIdle
    /\ LoadIdle

SpecOrphans == InitOrphans /\ [][NextOrphans]_vars


(***************************************************************************)
(* Two EmbeddedPostgres instances without an explicit port or data          *)
(* directory: constructor (lines 87-95), init (lines 108-157), start        *)
(* (lines 201-251), findFreePort (lines 61-74)                              *)
(***************************************************************************)
\* the milliseconds Date.now() can return while the two constructors run
MaxClock == 2

\* the number of ports findFreePort scans
MaxPorts == 3

FirstPort == 15432
PortRange == FirstPort .. (FirstPort + MaxPorts - 1)

\* the first port of the range on which a probe server can listen; 0: none, the
\* function throws.  The probe server is closed again before the port is returned.
findFreePort(listening) ==
    LET free == PortRange \ listening
    IN  IF free = {} THEN 0 ELSE CHOOSE p \in free : \A q \in free : p <= q

\* path.join(os.tmpdir(), `odoo_pg_${Date.now()}`)
AutoDataDir(now) == <<"odoo_pg_", now>>

TwinIds == {1, 2}
Other(k) == 3 - k

\* the two constructions: Date.now() of the second is not before that of the first;
\* taken: the ports other programs listen on
TwinInputs ==
    { i \in [fn : {"twoInstances"},
             clock : [TwinIds -> 1..MaxClock],
             taken : SUBSET PortRange] :
        i.clock[1] <= i.clock[2] }

\* new EmbeddedPostgres({ binDir, logger }), twice
TwinConstruct ==
    /\ callIn.fn = "twoInstances"
    /\ callOut = Unapplied
    /\ callOut' = [fn |-> callIn.fn,
                   inst |-> [k \in TwinIds |->
                               [pc |-> "constructed",
                                port |-> 0,
                                dataDir |-> AutoDataDir(callIn.clock[k]),
                                autoDataDir |-> TRUE,
                                initialized |-> FALSE,
                                running |-> FALSE]],
                   disk |-> [t \in 1..MaxClock |-> 0],
                   listening |-> callIn.taken,
                   wiped |-> {}]
    /\ UNCHANGED <<callIn, orchVars, pipeVars, pgVars, loadVars>>

TwinAt(k, pc) ==
    /\ callIn.fn = "twoInstances"
    /\ callOut # Unapplied
    /\ callOut.inst[k].pc = pc

\* init(): if (this.port === 0) this.port = await findFreePort()
TwinProbe(k) ==
    /\ TwinAt(k, "constructed")
    /\ LET p == findFreePort(callOut.listening)
       IN  callOut' = IF p = 0
                      THEN [callOut EXCEPT !.inst[k].pc = "threw"]
                      ELSE [callOut EXCEPT !.inst[k].pc = "probed", !.inst[k].port = p]
    /\ UNCHANGED <<callIn, orchVars, pipeVars, pgVars, loadVars>>

\* init(): if (fs.existsSync(this.dataDir)) fs.rmSync(this.dataDir, ...); initdb is
\* launched.  disk[t] is the instance whose initdb filled odoo_pg_<t>, 0 when absent.
TwinClean(k) ==
    /\ TwinAt(k, "probed")
    /\ LET t == callOut.inst[k].dataDir[2]
           owner == callOut.disk[t]
       IN  callOut' = [callOut EXCEPT !.inst[k].pc = "initdb",
                                      !.disk[t] = 0,
                                      !.wiped = IF owner = Other(k) THEN @ \cup {owner} ELSE @]
    /\ UNCHANGED <<callIn, orchVars, pipeVars, pgVars, loadVars>>

\* init(): await this.execBinary(initdbPath, args, env); this.initialized = true.
\* initdb refuses a directory that is no longer empty.
TwinInitdb(k) ==
    /\ TwinAt(k, "initdb")
    /\ LET t == callOut.inst[k].dataDir[2]
       IN  callOut' = IF callOut.disk[t] # 0
                      THEN [callOut EXCEPT !.inst[k].pc = "threw"]
                      ELSE [callOut EXCEPT !.inst[k].pc = "initialized",
                                           !.inst[k].initialized = TRUE,
                                           !.disk[t] = k]
    /\ UNCHANGED <<callIn, orchVars, pipeVars, pgVars, loadVars>>

\* start(): pg_ctl start -D dataDir -o "-p port"; the port is bound only here
TwinStart(k) ==
    /\ TwinAt(k, "initialized")
    /\ LET t == callOut.inst[k].dataDir[2]
           p == callOut.inst[k].port
       IN  callOut' = IF p \in callOut.listening \/ callOut.disk[t] = 0
                      THEN [callOut EXCEPT !.inst[k].pc = "startFailed"]
                      ELSE [callOut EXCEPT !.inst[k].pc = "running",
                                           !.inst[k].running = TRUE,
                                           !.listening = @ \cup {p}]
    /\ UNCHANGED <<callIn, orchVars, pipeVars, pgVars, loadVars>>

NextTwin ==
    \/ TwinConstruct
    \/ \E k \in TwinIds : TwinProbe(k)
    \/ \E k \in TwinIds : TwinClean(k)
    \/ \E k \in TwinIds : TwinInitdb(k)
    \/ \E k \in TwinIds : TwinStart(k)

InitTwin ==
    /\ callIn \in TwinInputs
    /\ callOut = Unapplied
    /\ ProgramIdle
    /\ PgIdle
    /\ LoadIdle

SpecTwin == InitTwin /\ [][NextTwin]_vars


(***************************************************************************)
(* Properties                                                              *)
(***************************************************************************)
Exited == mpc = "exited"
ReturnedResult == staged.value

BegunIds == [i \in 1..Len(SelectSeq(txlog, LAMBDA e : e[1] = "BEGIN")) |->
                SelectSeq(txlog, LAMBDA e : e[1] = "BEGIN")[i][2]]
CommittedIds == [i \in 1..Len(SelectSeq(txlog, LAMBDA e : e[1] = "COMMIT")) |->
                    SelectSeq(txlog, LAMBDA e : e[1] = "COMMIT")[i][2]]

\* C1: in every execution of migrate the cleanup region runs exactly once before
\* migrate is left, and in it the pool is closed if it is still non-null, the
\* DROP DATABASE is issued for the temporary database if it was created, and the
\* removal of the scratch directory is started if it was created (and keepTemp is
\* not set).
C1_CleanupRunsOnceAndFully ==
    Exited =>
        /\ cleanupRuns = 1
        /\ (pool # "null") => \E i \in DOMAIN teardown : teardown[i] = "pool.end"
        /\ (tempDb # "none") => \E i \in DOMAIN teardown : teardown[i] = "drop"
        /\ (scratch # "none" /\ ~config.keepTemp) => \E i \in DOMAIN teardown : teardown[i] = "rm"

\* C2: migrate never rejects, also when a teardown step fails; it resolves with a
\* result that still holds the original failure.
C2_MigrateNeverRejects ==
    Exited =>
        /\ outcome = "resolved"
        /\ (failPhase # "") => (~ReturnedResult.success /\ Len(ReturnedResult.errors) > 0)

\* C3: every failure of a run is recorded in the result's errors with the phase
\* in which it arose.
C3_ErrorsTaggedWithOriginPhase ==
    (Exited /\ outcome = "resolved" /\ failPhase # "") =>
        \A i \in DOMAIN ReturnedResult.errors : ReturnedResult.errors[i].phase = failPhase

\* the loaded database carries a readable marker that does not start with the
\* source-version prefix of the path runMigration works on
MarkerMismatch ==
    /\ path # NoPath
    /\ "ir_config_parameter" \in dump.tables
    /\ Len(dump.markerRows) > 0
    /\ ~StartsWith(dump.markerRows[1], ExpectedPrefix(MIGRATION_PATHS[path].sourceVersion))

\* C4: with a marker that does not match the path, runMigration aborts in
\* pre-validation with a failure, executes no script and leaves the database as
\* it was (stated for runs without any environment failure).
C4_MismatchAbortsBeforeAnyScript ==
    (MarkerMismatch /\ faults = 0 /\ rpc \in {"scripts", "post", "done"}) =>
        /\ rpc = "done"
        /\ ~result.success
        /\ executed = <<>>
        /\ db = dump

\* C5: a script whose pre-check is false does not get its statement executed, its
\* transaction changes nothing, and its id is not added to migrationsApplied.
C5_SkippedScriptNotApplied ==
    /\ (spc = "skip") => (cur.id \notin Range(executed) /\ txdb = db)
    /\ \A i \in DOMAIN result.migrationsApplied :
           result.migrationsApplied[i] \in Range(executed)


\* the catalog of a path as declared, before getMigrationScripts sorts it
Declared(p) == IF p = P1617 THEN MIGRATION_SCRIPTS ELSE MIGRATION_SCRIPTS_17_18

\* position at which element i of catalog cat must run: after every element with a
\* smaller order key and after the elements with the same key declared before it
Rank(cat, i) ==
    1 + Cardinality({j \in DOMAIN cat :
                        \/ cat[j].order < cat[i].order
                        \/ (cat[j].order = cat[i].order /\ j < i)})

\* small catalogs whose order keys collide
MaxTieLen == 3
TieOrders == {1, 2}
TieCatalogs ==
    UNION { { [i \in 1..n |-> [id |-> i, order |-> o[i]]] : o \in [1..n -> TieOrders] } :
            n \in 0..MaxTieLen }

StableAscending(sorted, cat) ==
    /\ Len(sorted) = Len(cat)
    /\ \A i \in DOMAIN cat : sorted[Rank(cat, i)] = cat[i]

\* C6: the scripts of the path run one at a time in ascending order key, scripts
\* sharing a key in declaration order, and a script's transaction is begun only
\* after the transaction of the script before it was committed or rolled back.
C6_ScriptsRunInOrderOneAtATime ==
    /\ (path # NoPath) =>
          /\ \A k \in DOMAIN BegunIds :
                \E i \in DOMAIN Declared(path) :
                    Rank(Declared(path), i) = k /\ Declared(path)[i].id = BegunIds[k]
          /\ \A k \in DOMAIN executed :
                \E i \in DOMAIN Declared(path) :
                    /\ Declared(path)[i].id = executed[k]
                    /\ k <= Rank(Declared(path), i)
                    /\ \A j \in 1..(k - 1) : \E h \in DOMAIN Declared(path) :
                          /\ Declared(path)[h].id = executed[j]
                          /\ Rank(Declared(path), h) < Rank(Declared(path), i)
    /\ \A n \in 2..Len(txlog) :
          (txlog[n][1] = "BEGIN") => txlog[n - 1][1] \in {"COMMIT", "ROLLBACK"}
    /\ \A n \in 1..Len(txlog) :
          (txlog[n][1] \in {"COMMIT", "ROLLBACK"} /\ n > 1 /\ txlog[n - 1][1] = "BEGIN")
              => txlog[n][2] = txlog[n - 1][2]
    /\ \A cat \in TieCatalogs : StableAscending(SortByOrder(cat), cat)

C6_Witness ==
    /\ rpc = "scripts"
    /\ Len(BegunIds) >= 4
    /\ \E n \in DOMAIN txlog : txlog[n][1] = "COMMIT"
    /\ \E n \in DOMAIN txlog : txlog[n][1] = "ROLLBACK"
    /\ txOpen

\* a script of the path failed: runMigration recorded the script error
ScriptFailed == \E i \in DOMAIN result.errors : result.errors[i].kind = "script_failed"

\* C7: when a script's statement raises (or its post-check fails) its transaction
\* is rolled back, no later script runs, post-validation is not run, the result is
\* a failure naming the script, migrationsApplied lists exactly the scripts
\* committed before it, and their effects stay (stated for runs whose only
\* failure is the script's own statement).
C7_FailedScriptAbortsPath ==
    (rpc = "done" /\ ScriptFailed /\ faults = 0) =>
        /\ ~result.success
        /\ ~txOpen
        /\ result.errors[Len(result.errors)].subject = executed[Len(executed)]
        /\ txlog[Len(txlog)] = <<"ROLLBACK", executed[Len(executed)]>>
        /\ result.migrationsApplied = CommittedIds
        /\ \A i \in DOMAIN CommittedIds :
              (\E j \in DOMAIN Declared(path) :
                  Declared(path)[j].id = CommittedIds[i] /\ Mutates(Declared(path)[j]))
                  => CommittedIds[i] \in db.effects

\* the mandatory tables of the path that the loaded database lacks, in order
MissingRequired ==
    SelectSeq(MIGRATION_PATHS[path].requiredTables, LAMBDA t : t \notin dump.tables)

AllScriptsCompleted == path # NoPath /\ idx = Len(Scripts) + 1

\* C9: when pre-validation passed and every script completed, runMigration
\* returns success=true whatever post-validation finds: its findings only ever
\* go to warnings, never to errors.
C9_PostValidationNeverFails ==
    (rpc = "done" /\ AllScriptsCompleted) =>
        /\ result.success
        /\ result.errors = <<>>

C9_Witness ==
    /\ rpc = "done"
    /\ AllScriptsCompleted
    /\ result.success
    /\ \E i \in DOMAIN result.warnings : result.warnings[i].kind = "orphaned_partner_references"
    /\ \E i \in DOMAIN result.warnings : result.warnings[i].kind = "could_not_verify_version"

\* the marker row of the loaded database, when the marker table can be read
ReadableMarker == "ir_config_parameter" \in dump.tables /\ Len(dump.markerRows) > 0
MarkerHasPrefix(c1, c2) ==
    /\ ReadableMarker
    /\ Len(dump.markerRows[1]) >= 3
    /\ dump.markerRows[1][1] = c1
    /\ dump.markerRows[1][2] = c2
    /\ dump.markerRows[1][3] = "."

\* C10: auto-detection yields 16-to-17 exactly for a marker starting with "16.",
\* 17-to-18 exactly for one starting with "17.", and no path otherwise (or when
\* the marker cannot be read); with no path given and none detected runMigration
\* fails without executing a script.
C10_DetectionByMarkerPrefix ==
    (pathArg = NoPath /\ rpc \notin {"idle", "called"}) =>
        /\ (path = P1617) => MarkerHasPrefix("1", "6")
        /\ (path = P1718) => MarkerHasPrefix("1", "7")
        /\ (path = NoPath) =>
              /\ faults > 0 \/ ~(MarkerHasPrefix("1", "6") \/ MarkerHasPrefix("1", "7"))
              /\ rpc = "done"
              /\ ~result.success
              /\ result.errors = <<Err("migration", "no_path", "")>>
              /\ executed = <<>>
              /\ db = dump

C10_Witness ==
    /\ pathArg = NoPath
    /\ path = P1718
    /\ dump.markerRows = <<V172>>
    /\ rpc = "done"
    /\ result.success


\* C11: when the input archive has no dump.sql, migrate never gets to
\* createTempDatabase (no temporary database, no database context, no pool), and
\* it resolves with a failure that arose in extraction; unless the environment
\* failed first, the error is the invalid-archive error listing dump.sql as a
\* missing required file.
C11_NoDumpFailsBeforeDatabase ==
    (mpc # "none" /\ archive.dump = "absent") =>
        /\ mpc \in {"start", "extract", "fin_pool", "fin_drop", "fin_tempdir", "exited"}
        /\ tempDb = "none" /\ ~dbContext /\ pool = "null"
        /\ \A i \in DOMAIN teardown : teardown[i] = "rm"
        /\ Exited =>
              /\ outcome = "resolved"
              /\ ~ReturnedResult.success
              /\ failPhase = "extraction"
              /\ (faults = 0) =>
                    /\ Len(ReturnedResult.errors) = 1
                    /\ ReturnedResult.errors[1].kind = "invalid_backup_zip"
                    /\ "dump.sql" \in Range(validateBackupZip(archive))

C11_Witness ==
    /\ Exited
    /\ archive.dump = "absent"
    /\ archive.manifest = "root"
    /\ faults = 0
    /\ ReturnedResult.errors[1].kind = "invalid_backup_zip"
    /\ scratch = "removed"


C13_CatalogSizes ==
    (Exited /\ outcome = "resolved" /\ ReturnedResult.success) =>
        /\ Len(MIGRATION_SCRIPTS) = 15
        /\ Len(MIGRATION_SCRIPTS_17_18) = 17
        /\ StartsWith(archive.version, <<"1", "6", ".">>) =>
              /\ Len(ReturnedResult.migrationsApplied) = Len(getMigrationScripts)
              /\ Len(ReturnedResult.migrationsApplied) = 15


\* the loaded database holds exactly the mandatory tables of the path and a
\* version marker of the path's source major version
MinimalSourceDatabase ==
    /\ path # NoPath
    /\ dump.tables = Range(MIGRATION_PATHS[path].requiredTables)
    /\ Len(dump.markerRows) > 0
    /\ StartsWith(dump.markerRows[1], ExpectedPrefix(MIGRATION_PATHS[path].sourceVersion))

\* C14: for each path, running the path's full ordered script list on a database
\* with only the mandatory tables completes without any script raising, and the
\* version marker afterwards is the path's target version (stated for runs
\* without any environment failure).
C14_MinimalDatabaseMigrates ==
    (MinimalSourceDatabase /\ faults = 0 /\ rpc = "done") =>
        /\ ~ScriptFailed
        /\ AllScriptsCompleted
        /\ db.markerRows = <<MIGRATION_PATHS[path].targetVersion>>


\* C15: an EmbeddedPostgres instance only moves forward: start() on an instance
\* that is not initialized is rejected, and once a stop() has stopped the server
\* the instance is never Running again.
C15_LifecycleOnlyForward ==
    /\ (pgLast.op = "start" /\ ~initialized) => (pgLast.threw /\ ~running /\ ~serverUp)
    /\ pgStopped => ~running


\* C16: init() on an already-initialized instance changes nothing: it selects no
\* port, does not touch the data directory, runs no tool, and returns normally.
C16_InitIdempotent ==
    [][(pgCalls' = pgCalls + 1 /\ pgLast'.op = "init" /\ initialized) =>
          /\ pgLast'.log = <<>>
          /\ ~pgLast'.threw
          /\ UNCHANGED <<initialized, running, port, autoDataDir, dataDir, serverUp,
                         pgStopped, faults>>]_vars

\* init() was just called on an initialized instance whose server is running
C16_Witness ==
    /\ pgLast.op = "init"
    /\ pgLast.log = <<>>
    /\ running
    /\ port \in FreePorts
    /\ dataDir = "cluster"


\* C17: stop() on a running instance first attempts pg_ctl stop in fast mode and,
\* only if that attempt fails, one attempt in immediate mode; it never throws,
\* also when both attempts fail, and afterwards the instance is not marked
\* running.  On an instance that is not running it attempts nothing.
C17_StopGracefulThenImmediate ==
    [][(pgCalls' = pgCalls + 1 /\ pgLast'.op = "stop") =>
          LET log == pgLast'.log
          IN  /\ ~pgLast'.threw
              /\ ~running'
              /\ Len(log) <= 2
              /\ running => (Len(log) >= 1 /\ log[1].tool = "pg_ctl stop fast")
              /\ ~running => log = <<>>
              /\ (Len(log) = 1) => log[1].ok
              /\ (Len(log) = 2) => (~log[1].ok /\ log[2].tool = "pg_ctl stop immediate")]_vars

\* stop() has just returned after both attempts failed: the server is still up
C17_Witness ==
    /\ pgLast.op = "stop"
    /\ Len(pgLast.log) = 2
    /\ ~pgLast.log[2].ok
    /\ ~pgLast.threw
    /\ serverUp
    /\ ~running


\* C18: cleanup() stops the server first and then removes the data directory only
\* if it was auto-generated; a caller-supplied data directory is left as it is,
\* and cleanup() returns normally also when the removal fails.
C18_CleanupKeepsSuppliedDataDir ==
    [][(pgCalls' = pgCalls + 1 /\ pgLast'.op = "cleanup") =>
          LET log == pgLast'.log
              rmAt == {i \in DOMAIN log : log[i].tool = "rm"}
          IN  /\ ~pgLast'.threw
              /\ ~running'
              /\ running => (Len(log) >= 1 /\ log[1].tool = "pg_ctl stop fast")
              /\ \A i \in rmAt : i = Len(log)
              /\ ~autoDataDir => (rmAt = {} /\ dataDir' = dataDir)
              /\ (autoDataDir /\ dataDir # "absent") =>
                    /\ rmAt = {Len(log)}
                    /\ dataDir' = IF log[Len(log)].ok THEN "absent" ELSE dataDir]_vars

\* cleanup() has just stopped the server of an instance with a caller-supplied
\* data directory, and the cluster is still there
C18_Witness ==
    /\ pgLast.op = "cleanup"
    /\ ~autoDataDir
    /\ dataDir = "cluster"
    /\ pgLast.log = <<Ran("pg_ctl stop fast", TRUE)>>
    /\ ~serverUp

\* C19: loadDumpFile does not trust psql's exit code alone. After psql has ended with 0 or
\* 3 it fails when one of ir_module_module, ir_config_parameter, res_users is missing from
\* the database; it succeeds only if the exit code was 0 or 3 and all three tables exist,
\* and it does succeed then when none of its verification steps fails.
C19_LoadVerifiesEssentialTables ==
    loadOut.called =>
      LET accepted == ~loadIn.spawnFail /\ loadIn.code \in AcceptedExitCodes
          allThere == {"ir_module_module", "ir_config_parameter", "res_users"}
                        \subseteq loadOut.db.tables
      IN /\ (accepted /\ ~allThere) => ~loadOut.ok
         /\ loadOut.ok => (accepted /\ allThere)
         /\ (accepted /\ allThere /\ ~loadIn.queryFail /\ ~loadIn.endFail) => loadOut.ok

\* psql reported a script error (3), a critical table is missing, and the call failed
C19_Witness ==
    /\ loadOut.called
    /\ loadIn.code = 3
    /\ ~loadIn.queryFail /\ ~loadIn.endFail
    /\ "ir_config_parameter" \notin loadOut.db.tables
    /\ "res_users" \in loadOut.db.tables
    /\ ~loadOut.ok
    /\ loadOut.kind = "import_incomplete"

\* C20: dropTempDatabase terminates the connections to the temporary database before it
\* issues the DROP, and it never throws: whichever of its steps fails, the call returns
\* and the teardown of migrate goes on to the scratch directory.
C20_DropTerminatesFirstAndNeverThrows ==
    [][ (mpc = "fin_drop") =>
          /\ mpc' = "fin_tempdir"
          /\ \A i \in DOMAIN teardown' :
                (teardown'[i] = "drop") => (i > 1 /\ teardown'[i - 1] = "terminate") ]_vars

\* C21: collectPostMigrationStats never raises; a statistic whose count query fails (its
\* table is missing, or the query is rejected) is reported as 0 with a warning, and every
\* other statistic carries the value of its own query.
C21_StatsDegradePerQuery ==
    (callOut # Unapplied /\ callOut.fn = "collectPostMigrationStats") =>
        /\ ~callOut.threw
        /\ \A k \in Range(StatKeys) :
             IF StatQueryFails(callIn, callIn.failing, k)
             THEN callOut.stats[k] = 0 /\ k \in callOut.warned
             ELSE callOut.stats[k] = StatCount(callIn, k) /\ k \notin callOut.warned

\* res_partner does not exist: partnerCount is 0 while the later userCount is counted
C21_Witness ==
    /\ callOut # Unapplied
    /\ callOut.fn = "collectPostMigrationStats"
    /\ "res_partner" \notin callIn.tables
    /\ callIn.failing = {}
    /\ callOut.stats["partnerCount"] = 0
    /\ callOut.stats["userCount"] = 2
    /\ callOut.stats["tableCount"] = 2

\* an archive in one of the two accepted layouts: dump.sql, manifest.json and the
\* filestore folder (if there is one) together at the root or in one wrapper folder,
\* with a manifest that declares a version
ValidArchive(a) ==
    /\ a.dump \in {"root", "w"}
    /\ a.manifest = a.dump
    /\ a.filestore \in {a.dump, "absent"}
    /\ a.version # NoStr

\* C22: for every valid archive, flat or nested one level, extractBackup succeeds, and
\* packBackup right after it writes an archive whose dump.sql, manifest.json and
\* filestore entries have the contents of the input's.
C22_ExtractThenPackKeepsContents ==
    (callIn.fn = "extractBackup" /\ ValidArchive(callIn) /\ callOut # Unapplied) =>
        /\ (callOut.fn = "extractBackup") => callOut.ok
        /\ (callOut.fn = "packBackup") =>
             /\ callOut.written.dump = callIn.dumpBytes
             /\ callOut.written.manifest = InputManifest(callIn)
             /\ callOut.written.filestore = callIn.files

\* a nested archive with two filestore files has gone through extraction and packing
C22_Witness ==
    /\ callIn.fn = "extractBackup"
    /\ ValidArchive(callIn)
    /\ callIn.dump = "w"
    /\ callIn.files = {"f1", "f2"}
    /\ callOut # Unapplied
    /\ callOut.fn = "packBackup"
    /\ callOut.written.filestore = {"f1", "f2"}
    /\ callOut.written.dump = "sqlB"

\* the required members an archive does not hold at any depth
AbsentMembers(a) ==
    {f \in {"dump.sql", "manifest.json"} : MemberAt(a, f) = "absent"}

TogetherAtTopOrOneDown(a) == a.dump \in {"root", "w", "v"} /\ a.manifest = a.dump

\* both required members are in the archive, but deeper than one level or in two folders
PresentButApart(a) ==
    /\ a.dump # "absent"
    /\ a.manifest # "absent"
    /\ ~TogetherAtTopOrOneDown(a)

C25_PatchedFieldsTakePatchValue ==
    (callOut # Unapplied /\ callOut.fn = "updateManifest") =>
        \A k \in DOMAIN callIn.manifest :
            callOut.manifest[k] =
                IF k \in DOMAIN callIn.updates THEN callIn.updates[k] ELSE callIn.manifest[k]

\* the events of a run that gets through all four phases
SuccessEvents ==
    << <<"extraction", 5>>, <<"extraction", 20>>, <<"database", 25>>, <<"database", 30>>,
       <<"database", 45>>, <<"migration", 50>>, <<"migration", 75>>, <<"export", 80>>,
       <<"export", 90>>, <<"export", 100>> >>

PhaseRank(phase) ==
    CASE phase = "extraction" -> 1
      [] phase = "database" -> 2
      [] phase = "migration" -> 3
      [] phase = "export" -> 4
      [] OTHER -> 0

\* C26: at every point of every run the progress events emitted so far have values
\* within 0..100 that strictly increase and phases in the order extraction, database,
\* migration, export; they are a prefix of the successful run's sequence, a run that
\* returns a successful result has emitted all of it, and progress 100 is emitted only
\* after the output archive has been packed.
C26_ProgressMonotoneAndPrefix ==
    /\ \A i \in DOMAIN events :
         /\ events[i][2] \in 0..100
         /\ PhaseRank(events[i][1]) > 0
         /\ \A j \in DOMAIN events :
              i < j => (/\ events[i][2] < events[j][2]
                        /\ PhaseRank(events[i][1]) <= PhaseRank(events[j][1]))
    /\ Len(events) <= Len(SuccessEvents)
    /\ events = SubSeq(SuccessEvents, 1, Len(events))
    /\ (Exited /\ outcome = "resolved" /\ ReturnedResult.success) => events = SuccessEvents
    /\ (\E i \in DOMAIN events : events[i][2] = 100) => output.archive = "written"

\* a run that failed while loading the dump has emitted the first four events only
C26_Witness ==
    /\ Exited
    /\ failPhase = "database"
    /\ ~ReturnedResult.success
    /\ events = SubSeq(SuccessEvents, 1, 4)

\* C27: once migrate is over, the scratch directory exists if and only if it was created
\* and keepTemp was set; with keepTemp set the rest of the teardown is as without it: the
\* pool is closed if one is open and dropTempDatabase is run if a database was created.
C27_ScratchKeptIffKeepTemp ==
    Exited =>
        /\ (scratch = "exists") <=> (tempDir /\ config.keepTemp)
        /\ config.keepTemp =>
             /\ (pool # "null") => \E i \in DOMAIN teardown : teardown[i] = "pool.end"
             /\ dbContext => \E i \in DOMAIN teardown : teardown[i] = "terminate"

\* the manifest version of the input does not fit the run's configuration: a selected
\* path whose source major version it does not start with, or no selected path and a
\* version that is neither 16.x nor 17.x
VersionDoesNotFit ==
    LET is16 == StartsWith(archive.version, <<"1", "6", ".">>)
        is17 == StartsWith(archive.version, <<"1", "7", ".">>)
    IN \/ (config.migrationPath = P1617 /\ ~is16)
       \/ (config.migrationPath = P1718 /\ ~is17)
       \/ (config.migrationPath = NoPath /\ ~is16 /\ ~is17)

\* C28: when the backup's manifest version does not fit the selected migration path, or
\* no path is selected and the version is neither 16.x nor 17.x, migrate fails in the
\* extraction phase: no temporary database is ever created, runMigration is never
\* called and no script is executed.
C28_VersionMismatchBlocksMigration ==
    (mpc # "none" /\ VersionDoesNotFit) =>
        /\ tempDb = "none" /\ ~dbContext /\ pool = "null"
        /\ rpc = "idle" /\ executed = <<>> /\ txlog = <<>>
        /\ Exited => (outcome = "resolved" /\ ~ReturnedResult.success
                        /\ failPhase = "extraction")

\* 17-to-18 was selected for a 16.0 backup and the run ended with the mismatch error
C28_Witness ==
    /\ Exited
    /\ config.migrationPath = P1718
    /\ archive.version = V160
    /\ Len(ReturnedResult.errors) = 1
    /\ ReturnedResult.errors[1].kind = "version_mismatch"
    /\ tempDb = "none"

\* C29: on a successful run whose report could be written, a report with the line
\* 'Status: Success' lies next to the output archive, at a path of its own that ends
\* in '-report.txt', and the archive is still at the output path; whether or not the
\* report could be written, the result returned still reports success.
C29_ReportNextToArchive ==
    (callOut # Unapplied /\ callOut.fn = "saveReport") =>
        /\ callOut.success
        /\ ~callIn.writeFail =>
             /\ callOut.reportText.status = "Status: Success"
             /\ EndsWith(callOut.reportPath, ReportSuffix)
             /\ callOut.reportPath # callIn.outputPath
             /\ callOut.outputFile = "archive"

\* C30: in every result migrate returns, on success and on failure alike, sourceVersion
\* and targetVersion are those of the migration path that was selected or auto-detected
\* for the archive: 16.0/17.0 on the 16-to-17 path, 17.0/18.0 on the 17-to-18 path.
C30_ResultVersionsFollowPath ==
    (Exited /\ outcome = "resolved" /\ mpath # NoPath) =>
        /\ ReturnedResult.sourceVersion = getMigrationPathInfo(mpath).source
        /\ ReturnedResult.targetVersion = getMigrationPathInfo(mpath).target

\* the place of each step of migrate in the order of its source text
StageRank(pc) ==
    CASE pc = "none" -> 0
      [] pc = "start" -> 1
      [] pc = "extract" -> 2
      [] pc = "createdb" -> 3
      [] pc = "verify" -> 4
      [] pc = "load" -> 5
      [] pc = "migrating" -> 6
      [] pc = "poolend" -> 7
      [] pc = "export" -> 8
      [] pc = "pack" -> 9
      [] pc = "fin_pool" -> 10
      [] pc = "fin_drop" -> 11
      [] pc = "fin_tempdir" -> 12
      [] OTHER -> 13

TxClosed(log) == log = <<>> \/ log[Len(log)][1] \in {"COMMIT", "ROLLBACK"}

\* C31: the blocking operations of a run occur in one total order: unpacking, creation
\* of the temporary database, dump load, the script transactions one after the other,
\* dump export, manifest update, repacking.  No step of migrate is taken before the
\* previous one has completed, scripts run only between the load and the export, a
\* script's transaction begins only when the previous one is closed, and the export
\* is entered only after runMigration has returned a successful result.
C31_OperationsTotallyOrdered ==
    [][ /\ StageRank(mpc') >= StageRank(mpc)
        /\ (spc' # spc \/ txlog' # txlog) => (mpc = "migrating" /\ mpc' = "migrating")
        /\ (mpc # "migrating" /\ mpc' = "migrating") =>
              (tempDir /\ dbContext /\ tempDb = "exists" /\ db' = dump /\ txlog = <<>>)
        /\ (txlog' # txlog /\ txlog'[Len(txlog')][1] = "BEGIN") => (TxClosed(txlog) /\ ~txOpen)
        /\ (mpc = "migrating" /\ mpc' = "poolend") =>
              (rpc = "done" /\ result.success /\ spc = "idle" /\ ~txOpen /\ TxClosed(txlog))
        /\ (mpc' = "export") => (mpc \in {"poolend", "export"})
        /\ (mpc' = "pack") => (mpc \in {"export", "pack"})
        /\ (output' # output) => (mpc = "pack" /\ result.success)
      ]_vars

\* scripts have run in their transactions and the export has been entered
C31_Witness ==
    /\ mpc = "export"
    /\ result.success
    /\ Len(txlog) >= 4
    /\ TxClosed(txlog)
    /\ db = txdb

\* C32: cleanupOrphanedInstances never throws, and for every odoo_pg_ directory under
\* the temp root: a termination signal is attempted when a process id could be read from
\* postmaster.pid; a directory older than one hour is removed whether or not the process
\* was still there to be signalled (unless reading its age or the removal itself fails,
\* or the temp root could not be listed at all); a directory that is not older than one
\* hour is never removed.
C32_OrphanSweep ==
    (callOut # Unapplied /\ callOut.fn = "cleanupOrphanedInstances") =>
        /\ ~callOut.threw
        /\ \A i \in DOMAIN callIn.dirs :
             LET d == callIn.dirs[i]
                 e == callOut.entries[i]
             IN /\ (~callIn.scanFail /\ d.pid = "recorded" /\ d.fail # "read") => e.signalled
                /\ (d.pid # "recorded") => ~e.signalled
                /\ (~callIn.scanFail /\ d.age > ONE_HOUR /\ d.fail \notin {"stat", "rm"})
                      => e.removed
                /\ (d.age <= ONE_HOUR) => ~e.removed

\* two directories: an old one whose server is still alive is signalled and removed, one
\* of exactly one hour is kept
C32_Witness ==
    /\ callOut # Unapplied
    /\ callOut.fn = "cleanupOrphanedInstances"
    /\ Len(callIn.dirs) = 2
    /\ callIn.dirs[1].alive /\ callIn.dirs[1].age = ONE_HOUR + 1 /\ callIn.dirs[1].fail = "none"
    /\ callOut.entries[1].signalled /\ callOut.entries[1].removed
    /\ callIn.dirs[2].age = ONE_HOUR
    /\ ~callOut.entries[2].removed

\* C33: after stop() or cleanup() has returned, no server process launched by the
\* instance's start() is left running, also when start() failed in waitForReady after
\* pg_ctl start had reported success.
\* (A call in which a pg_ctl stop command itself failed is left aside.)
C33_NoServerLeftAfterStop ==
    (/\ pgLast.op \in {"stop", "cleanup"}
     /\ \A i \in DOMAIN pgLast.log : pgLast.log[i].ok) => ~serverUp

\* C34: in a successful run the text report is never written over the output archive:
\* the report path differs from outputPath for every output path, also for one that
\* does not end in '.zip', and after the report step the archive is still in place.
C34_ReportNeverOverwritesArchive ==
    (callIn.fn = "saveReport") =>
        /\ ReportPath(callIn.outputPath) # callIn.outputPath
        /\ (callOut # Unapplied) => callOut.outputFile = "archive"

\* the commands of kind k that executeMigrationScript completed for script id
TxCount(k, id) == Cardinality({i \in DOMAIN txlog : txlog[i] = <<k, id>>})

\* C35: for every call of executeMigrationScript (script applied, skipped by its
\* pre-check, statement failure, post-check failure) the transaction opened by BEGIN is
\* closed by exactly one COMMIT or ROLLBACK and the pooled client is released once the
\* call is over; COMMIT is issued only when the main statement ran and the post-check
\* did not fail.
C35_TransactionClosedExactlyOnce ==
    /\ (rpc = "scripts" /\ spc \in {"returned", "threw"}) =>
          /\ ~txOpen
          /\ ~clientHeld
          /\ TxCount("BEGIN", cur.id) = 1 =>
                TxCount("COMMIT", cur.id) + TxCount("ROLLBACK", cur.id) = 1
    /\ \A i \in DOMAIN txlog :
          /\ TxCount("BEGIN", txlog[i][2]) <= 1
          /\ TxCount("COMMIT", txlog[i][2]) + TxCount("ROLLBACK", txlog[i][2]) <= 1
          /\ txlog[i][1] = "COMMIT" =>
                \E j \in DOMAIN executed : executed[j] = txlog[i][2]

\* emitProgress('export', 90) has run: exportDatabase and updateManifest have returned
Exported(evs) == \E i \in DOMAIN evs : evs[i] = <<"export", 90>>

\* C36: migrate writes the file at outputPath only in a run in which the orchestrator
\* reported success and the dump export succeeded, and as long as a run has not come to
\* repacking, which includes every run that fails before it, that file is untouched.
C36_OutputWrittenOnlyAfterExport ==
    [][ /\ (output' # output) =>
              /\ output = NoOutput
              /\ rpc = "done" /\ result.success /\ result.errors = <<>>
              /\ Exported(events)
              /\ mpc = "pack"
        /\ (~Exported(events') \/ ~result'.success) => output' = NoOutput
        /\ (mpc' = "exited" /\ failPhase' # "" /\ ~Exported(events')) =>
              output'.archive = "untouched"
      ]_vars

\* a successful run has written the archive after its export
C36_Witness ==
    /\ Exited /\ outcome = "resolved"
    /\ result.success /\ Exported(events)
    /\ output.archive = "written"
    /\ faults = 0

\* the teardown of the run has issued command c
Issued(c) == \E i \in DOMAIN teardown : teardown[i] = c

\* C37: in every run in which CREATE DATABASE for the temporary database succeeded, a
\* DROP DATABASE for it is issued before migrate returns, also when closing the
\* administrative connection right after the creation fails.  (A DROP skipped because
\* the terminate query of dropTempDatabase failed is the case of C38 and left aside.)
C37_CreatedDatabaseGetsDrop ==
    (Exited /\ tempDb # "none" /\ ~(Issued("terminate") /\ ~Issued("drop"))) =>
        Issued("drop")

\* C38: every call of dropTempDatabase for a created temporary database issues DROP
\* DATABASE, also when the query that terminates the live connections to it fails.
C38_DropIssuedInEveryCall ==
    [][ (mpc = "fin_drop" /\ dbContext) =>
            \E i \in DOMAIN teardown' : i > Len(teardown) /\ teardown'[i] = "drop" ]_vars

\* init() has returned for instance k
TwinInitialized(k) == callOut.inst[k].initialized

\* C39: two EmbeddedPostgres instances constructed and initialised concurrently without
\* an explicit port or data directory never end up with the same listening port or the
\* same data directory, and the init() of one never deletes the data directory of the
\* other.
C39_TwinsShareNothing ==
    (callIn.fn = "twoInstances" /\ callOut # Unapplied) =>
        /\ callOut.wiped = {}
        /\ (TwinInitialized(1) /\ TwinInitialized(2)) =>
              /\ callOut.inst[1].port # callOut.inst[2].port
              /\ callOut.inst[1].dataDir # callOut.inst[2].dataDir

=============================================================================
